---- MODULE Spec2Model ----
(***************************************************************************)
(* A model of LVFontConv's encoding pipeline: the bit packer and RLE codec *)
(* (writers/lvgl/compress.py, writers/lvgl/writer.py), the font aggregate  *)
(* and its validation (writers/lvgl/structures.py), the C source emitter   *)
(* (writers/lvgl/writer.py) and the conversion job                         *)
(* (core/simple_converter.py, core/glyph_renderer.py).                     *)
(*                                                                         *)
(* Conventions.  A numpy array is a record [h, w, d]: its shape (h, w) and *)
(* its elements d in row-major order (what flatten() returns).  A Python   *)
(* call that may raise is a record [err, out]: err is "" on a normal       *)
(* return and the exception's class name otherwise.  An Optional[List]     *)
(* field is a sequence, None and [] both being <<>> (the code only ever    *)
(* tests such a field for truthiness).  Offsets are 0-based as in the      *)
(* source, so element i of a Python list s is s[i + 1] here.               *)
(***************************************************************************)
EXTENDS Integers, Sequences, FiniteSets, TLC

VARIABLES
    \* ---- codec harness: one pixel stream pushed through packer and codec
    cbpp,        \* bits per pixel handed to the packer / codec
    px,          \* the flat pixel sequence
    cpc,         \* "input" | "packed" | "compressed" | "decoded"
    packedOut,   \* result of LVGLWriter._flatten_bitmap
    rleOut,      \* result of compress_rle
    rleBack,     \* result of decompress_rle on rleOut
    \* ---- an LVGLFont handed to validate() and to LVGLWriter.write()
    font,        \* the LVGLFont
    errors,      \* what the last call of font.validate() returned
    file,        \* the output file: [exists, text]
    wres,        \* how LVGLWriter.write ended: "" (not called), "ok", or
                 \* the exception it raised
    fpc,         \* "init" | "validated" | "written"
    \* ---- a conversion job: SimpleFontConverter.convert_font(...)
    cfg,         \* its arguments: [bpp, compression, lvgl_version,
                 \*   codepoints, loadable]
    cpos,        \* "start" | "render" | "finish" | "done"
    todo,        \* sorted(codepoints) still to be rendered
    glyf,        \* the LVGLGlyf under construction
    bitmap_offset,
    glyph_id,
    char_to_glyph_id,
    rendered,    \* number of render_glyph calls made so far
    result,      \* "" while running, then "True" or "False"
    failed_at,   \* the stage a failed conversion stopped at
    lvgl_font,   \* the LVGLFont handed to the writer
    output,      \* the output file: [exists, text]
    \* ---- a FontConverter: set_params(...) calls, then convert(...)
    params,      \* self.params: [bpp, compression, lvgl_version]
    set_calls,   \* number of set_params calls made
    set_res,     \* how the last set_params ended: "", "ok", "ValueError"
    used,        \* the parameters convert() ran with, <<>> before it
    \* ---- one rasterized bitmap: quantized, then XOR pre-filtered
    gray,        \* the 8-bit array FreeType delivered
    qbpp,        \* the target depth
    ppc,         \* "input" | "quantized" | "filtered"
    quantized,   \* result of GlyphRenderer._convert_bit_depth
    xored,       \* result of apply_xor_prefilter on quantized
    \* ---- one BitStream object
    stream,      \* its fields: [buffer, current_byte, bit_position]
    written,     \* the bits appended since the last flush, in order
    nwrites,     \* number of write_bits calls made
    last_op,     \* "" | "write" | "raised" | "flush"
    flushed,     \* what the last flush() returned
    flushed_bits,\* the bits that had been appended when it was called
    \* ---- one LVGLWriter asked for the C text of a font, repeatedly
    efont,       \* the LVGLFont handed to generate_c_code
    efont0,      \* the same font as it was before the first call
    emitted,     \* the results of the calls made so far, in order
    \* ---- a Project saved to disk and a second Project loading it
    saved_project,  \* the Project save() is called on
    fresh_project,  \* a Project() that load() is called on
    disk,        \* the files: name -> content, or Missing
    save_path,   \* the argument of the last save(), NoPath before it
    save_res,    \* what it returned: "" (not called), "True", "False"
    load_path,   \* the argument of the last load()
    load_res,    \* what it returned
    \* ---- a ConvertThread and the dialog that may cancel it
    thread_fonts,\* self.fonts: per font [glyphs, result, raises]
    tpc,         \* "start" | "loop" | "convert" | "done"
    font_i,      \* the loop index i of run()
    glyph_i,     \* glyphs of the current font rendered and encoded so far
    is_cancelled,\* self.is_cancelled
    finished,    \* the conversion_finished signals emitted, in order
    converted,   \* the convert_font calls made: [font, result], result ""
                 \* while the call is running
    glyphs_done, \* glyphs rendered and encoded in the whole run
    cancel_mark, \* glyphs_done when cancel() was called, -1 before
    \* ---- the MainWindow: its Project and the two editing widgets
    project,     \* self.project
    font_sources,\* font_list_widget.font_sources
    shown_config,\* config_widget.config, which its widgets display
    config_shared,\* whether that is the very object project.config
    win_disk,    \* the files the Open and Save dialogs can name
    win_last,    \* the handler that ran last and how it ended
    win_steps,   \* number of handlers run
    \* ---- the Config object holding the recent-projects list
    settings,    \* self.settings: [recent_projects, max_recent_projects]
    before_add,  \* recent_projects before the last add_recent_project
    last_added,  \* the argument of the last add_recent_project, "" if none
    adds         \* number of add_recent_project calls made

codecVars == <<cbpp, px, cpc, packedOut, rleOut, rleBack>>
fontVars == <<font, errors, file, wres, fpc>>
jobVars == <<cfg, cpos, todo, glyf, bitmap_offset, glyph_id,
             char_to_glyph_id, rendered, result, failed_at, lvgl_font, output>>
fcVars == <<params, set_calls, set_res, used>>
convVars == <<jobVars, fcVars>>
pixelVars == <<gray, qbpp, ppc, quantized, xored>>
bitsVars == <<stream, written, nwrites, last_op, flushed, flushed_bits>>
emitVars == <<efont, efont0, emitted>>
projVars == <<saved_project, fresh_project, disk, save_path, save_res,
              load_path, load_res>>
threadVars == <<thread_fonts, tpc, font_i, glyph_i, is_cancelled, finished,
                converted, glyphs_done, cancel_mark>>
winVars == <<project, font_sources, shown_config, config_shared, win_disk,
             win_last, win_steps>>
recentVars == <<settings, before_add, last_added, adds>>
appVars == <<threadVars, winVars, recentVars>>
unitVars == <<pixelVars, bitsVars, emitVars, projVars, appVars>>
vars == <<codecVars, fontVars, convVars, unitVars>>

(***************************************************************************)
(* Bounds of the model                                                     *)
(***************************************************************************)
MaxRuns == 2                    \* runs per pixel stream of the codec harness

\* run lengths around every threshold of the RLE grammar
RunLens == {1, 2, 5, 11, 12, 75, 76}

\* pixel values tried at a depth: both extremes and one in between
PixelValues(b) == {0, 1, (2 ^ b) - 1}

CodecBpps == {1, 2, 3, 4, 8}

MaxGlyphs == 2                  \* glyphs in a font handed to validate/write
GlyphIds == 0..2                \* glyph ids tried in such a font
MaxChars == 3                   \* codepoints requested from one conversion
MaxSetCalls == 2                \* set_params calls before convert

(***************************************************************************)
(* A note on the loops.  A loop of the source is a RECURSIVE operator that *)
(* carries the loop's variables.  TLC binds an operator's arguments        *)
(* unevaluated, so an accumulator that is only passed on would pile up as  *)
(* one deeply nested expression; the first conjunct of such an operator's  *)
(* test (bs.bit_position < 8, Len(pixels) >= 0, st.pos >= 0: always true)  *)
(* is there to have the accumulator evaluated at every iteration.          *)
(***************************************************************************)

(***************************************************************************)
(* Generic helpers                                                         *)
(***************************************************************************)
Ok(v) == [err |-> "", out |-> v]
Raise(e) == [err |-> e, out |-> <<>>]

\* [v] * n
Repeat(v, n) == [i \in 1..n |-> v]

RECURSIVE Expand(_)
\* the pixel stream described by a sequence of <<value, length>> runs
Expand(runs) ==
    IF runs = <<>> THEN <<>>
    ELSE Repeat(runs[1][1], runs[1][2]) \o Expand(Tail(runs))

RECURSIVE SeqsUpTo(_, _)
SeqsUpTo(S, n) ==
    IF n = 0 THEN {<<>>}
    ELSE LET shorter == SeqsUpTo(S, n - 1)
         IN shorter \cup {Append(s, x) : s \in shorter, x \in S}

RECURSIVE Xor(_, _)
\* Python's a ^ b on non-negative integers
Xor(a, b) ==
    IF a = 0 /\ b = 0 THEN 0
    ELSE (((a % 2) + (b % 2)) % 2) + 2 * Xor(a \div 2, b \div 2)

(***************************************************************************)
(* compress.py: BitStream                                                  *)
(***************************************************************************)
BitStreamInit == [buffer |-> <<>>, current_byte |-> 0, bit_position |-> 0]

\* a stream that fills each byte from its low end
write_bit_lsb_first(bs, bit) ==
    IF bs.bit_position + 1 = 8
    THEN [buffer |-> Append(bs.buffer, bs.current_byte + bit * 128),
          current_byte |-> 0, bit_position |-> 0]
    ELSE [buffer |-> bs.buffer,
          current_byte |-> bs.current_byte + bit * (2 ^ bs.bit_position),
          bit_position |-> bs.bit_position + 1]

\* one iteration of the loop of write_bits
write_bit(bs, bit) ==
    IF bs.bit_position + 1 = 8
    THEN [buffer |-> Append(bs.buffer, bs.current_byte * 2 + bit),
          current_byte |-> 0, bit_position |-> 0]
    ELSE [buffer |-> bs.buffer, current_byte |-> bs.current_byte * 2 + bit,
          bit_position |-> bs.bit_position + 1]

\* (value >> i) & 1; the values of the model are below 2^31, so the bits
\* from 31 on are zero
bit_of(value, i) == IF i >= 31 THEN 0 ELSE (value \div (2 ^ i)) % 2

\* value & ((1 << num_bits) - 1), for the same values
mask_bits(value, num_bits) ==
    IF num_bits >= 31 THEN value ELSE value % (2 ^ num_bits)

RECURSIVE write_bits_loop(_, _, _)
\* for i in range(num_bits - 1, -1, -1); i here is the number of bits left
write_bits_loop(bs, value, i) ==
    IF bs.bit_position < 8 /\ i = 0 THEN bs
    ELSE write_bits_loop(write_bit(bs, bit_of(value, i - 1)), value, i - 1)

write_bits_raises(num_bits) == num_bits <= 0 \/ num_bits > 32

\* BitStream.write_bits for an accepted num_bits; the stream is unchanged
\* when the call raises
write_bits(bs, value, num_bits) ==
    IF write_bits_raises(num_bits) THEN bs
    ELSE write_bits_loop(bs, mask_bits(value, num_bits), num_bits)

flush(bs) ==
    IF bs.bit_position > 0
    THEN Append(bs.buffer, bs.current_byte * (2 ^ (8 - bs.bit_position)))
    ELSE bs.buffer

\* the stream flush() leaves behind: the partial byte is cleared and the
\* buffer replaced by an empty one
flush_reset(bs) ==
    [buffer |-> <<>>,
     current_byte |-> IF bs.bit_position > 0 THEN 0 ELSE bs.current_byte,
     bit_position |-> IF bs.bit_position > 0 THEN 0 ELSE bs.bit_position]

byte_count(bs) ==
    Len(bs.buffer) + (IF bs.bit_position > 0 THEN 1 ELSE 0)

(***************************************************************************)
(* compress.py: count_same, compress_rle                                   *)
(***************************************************************************)
\* count_same: 1 + the number of pixels after `offset` that equal
\* pixels[offset], up to the first that differs (the loop's break)
count_same(pixels, offset) ==
    IF offset >= Len(pixels) THEN 0
    ELSE LET differs == {i \in (offset + 1)..(Len(pixels) - 1) :
                            pixels[i + 1] # pixels[offset + 1]}
         IN IF differs = {} THEN Len(pixels) - offset
            ELSE (CHOOSE i \in differs : \A j \in differs : i <= j) - offset

min_repeat == 1
RLE_SKIP_COUNT == min_repeat
RLE_BIT_COLLAPSED_COUNT == 10
RLE_COUNTER_BITS == 6
RLE_COUNTER_MAX == (2 ^ RLE_COUNTER_BITS) - 1
RLE_MAX_REPEATS == RLE_COUNTER_MAX + RLE_BIT_COLLAPSED_COUNT + 1

RECURSIVE write_times(_, _, _, _)
\* for _ in range(times): bs.write_bits(value, num_bits)
write_times(bs, value, num_bits, times) ==
    IF bs.bit_position < 8 /\ times <= 0 THEN bs
    ELSE write_times(write_bits(bs, value, num_bits), value, num_bits,
                     times - 1)

\* a run branch that writes one continue flag too many for a short run
rle_run_extra_flag(head, pixel, rest, bpp) ==
    IF rest <= RLE_BIT_COLLAPSED_COUNT
    THEN write_bits(write_times(write_bits(head, pixel, bpp), 1, 1, rest),
                    0, 1)
    ELSE write_bits(write_times(write_bits(head, pixel, bpp), 1, 1,
                                RLE_BIT_COLLAPSED_COUNT + 1),
                    rest - (RLE_BIT_COLLAPSED_COUNT + 1), RLE_COUNTER_BITS)

\* a run branch that writes the counter right after ten one bits
rle_run_ten_ones(head, pixel, rest, bpp) ==
    IF rest <= RLE_BIT_COLLAPSED_COUNT
    THEN write_bits(write_times(write_bits(head, pixel, bpp), 1, 1, rest - 1),
                    0, 1)
    ELSE write_bits(write_times(write_bits(head, pixel, bpp), 1, 1,
                                RLE_BIT_COLLAPSED_COUNT),
                    rest - (RLE_BIT_COLLAPSED_COUNT + 1), RLE_COUNTER_BITS)

\* the RLE branch of compress_rle's loop: `head` is the stream after the
\* skipped literals, `rest` is same - RLE_SKIP_COUNT
rle_run(head, pixel, rest, bpp) ==
    IF rest <= RLE_BIT_COLLAPSED_COUNT
    THEN write_bits(write_times(write_bits(head, pixel, bpp), 1, 1, rest - 1),
                    0, 1)
    ELSE write_bits(write_times(write_bits(head, pixel, bpp), 1, 1,
                                RLE_BIT_COLLAPSED_COUNT + 1),
                    rest - (RLE_BIT_COLLAPSED_COUNT + 1), RLE_COUNTER_BITS)

\* an encoder that treats every run, however short, as a tagged run
rle_token_always_tagged(bs, pixel, same, bpp) ==
    rle_run(write_times(bs, pixel, bpp, RLE_SKIP_COUNT), pixel,
            same - RLE_SKIP_COUNT, bpp)

\* what one iteration of compress_rle's loop writes for a run of `same`
\* pixels (after the cap)
rle_token(bs, pixel, same, bpp) ==
    IF same <= RLE_SKIP_COUNT
    THEN write_times(bs, pixel, bpp, same)
    ELSE rle_run(write_times(bs, pixel, bpp, RLE_SKIP_COUNT), pixel,
                 same - RLE_SKIP_COUNT, bpp)

\* an encoder that takes every run whole, however long
rle_uncapped(pixels, offset) == count_same(pixels, offset)

\* the run length one iteration consumes
rle_capped(pixels, offset) ==
    IF count_same(pixels, offset) > RLE_MAX_REPEATS + RLE_SKIP_COUNT
    THEN RLE_MAX_REPEATS + RLE_SKIP_COUNT
    ELSE count_same(pixels, offset)

RECURSIVE compress_rle_loop(_, _, _, _)
compress_rle_loop(pixels, bpp, offset, bs) ==
    IF bs.bit_position < 8 /\ offset >= Len(pixels) THEN bs
    ELSE compress_rle_loop(pixels, bpp, offset + rle_capped(pixels, offset),
                           rle_token(bs, pixels[offset + 1],
                                     rle_capped(pixels, offset), bpp))

compress_rle(pixels, bpp) ==
    IF bpp < 1 \/ bpp > 4 THEN Raise("ValueError")
    ELSE IF Len(pixels) = 0 THEN Ok(<<>>)
    ELSE Ok(flush(compress_rle_loop(pixels, bpp, 0, BitStreamInit)))

(***************************************************************************)
(* compress.py: decompress_rle                                             *)
(***************************************************************************)
\* the bit the reader is at: data[byte_offset] >> (7 - bit_offset) & 1,
\* pos = 8 * byte_offset + bit_offset
bit_at(data, pos) == (data[(pos \div 8) + 1] \div (2 ^ (7 - (pos % 8)))) % 2

RECURSIVE read_value(_, _, _)
read_value(data, pos, n) ==
    IF n = 0 THEN 0
    ELSE 2 * read_value(data, pos, n - 1) + bit_at(data, pos + n - 1)

\* read_bits: the whole value is 0 as soon as the data runs out, and the
\* reader stays at the end of the data
read_bits(data, pos, num_bits) ==
    IF pos + num_bits > 8 * Len(data)
    THEN [v |-> 0, pos |-> IF pos > 8 * Len(data) THEN pos ELSE 8 * Len(data)]
    ELSE [v |-> read_value(data, pos, num_bits), pos |-> pos + num_bits]

RECURSIVE read_flags(_, _, _, _, _)
\* while repeat_count < RLE_BIT_COLLAPSED_COUNT: read a flag, stop at a 0
read_flags(data, pos, pixel, pixels, repeat_count) ==
    IF Len(pixels) >= 0 /\ repeat_count >= RLE_BIT_COLLAPSED_COUNT
    THEN [pos |-> pos, pixels |-> pixels, repeat_count |-> repeat_count]
    ELSE IF read_bits(data, pos, 1).v = 0
    THEN [pos |-> read_bits(data, pos, 1).pos, pixels |-> pixels,
          repeat_count |-> repeat_count]
    ELSE read_flags(data, read_bits(data, pos, 1).pos, pixel,
                    Append(pixels, pixel), repeat_count + 1)

\* the end of one iteration: f is what the flag loop left; the counter is
\* read when all RLE_BIT_COLLAPSED_COUNT flags were set
decompress_rle_counter(data, pixel, f, c) ==
    IF f.repeat_count = RLE_BIT_COLLAPSED_COUNT
    THEN [pos |-> c.pos, pixels |-> f.pixels \o Repeat(pixel, c.v)]
    ELSE [pos |-> f.pos, pixels |-> f.pixels]

decompress_rle_flags(data, f, pixel) ==
    decompress_rle_counter(data, pixel, f,
                           read_bits(data, f.pos, RLE_COUNTER_BITS))

\* p is the pixel literal just read
decompress_rle_pixel(data, st, p) ==
    decompress_rle_flags(
        data, read_flags(data, p.pos, p.v, Append(st.pixels, p.v), 0), p.v)

\* one iteration of `while len(pixels) < expected_pixels`; st is the
\* decoder's state [pos, pixels]; nothing happens once the loop has ended
decompress_rle_step(data, bpp, expected_pixels, st) ==
    IF Len(st.pixels) >= expected_pixels THEN st
    ELSE decompress_rle_pixel(data, st, read_bits(data, st.pos, bpp))

RECURSIVE decompress_rle_loop(_, _, _, _, _)
\* the while loop, as k iterations of its body (every iteration appends a
\* pixel, so expected_pixels iterations always reach the exit); the
\* iterations are split in halves to keep the evaluation shallow
decompress_rle_loop(data, bpp, expected_pixels, st, k) ==
    IF st.pos >= 0 /\ k <= 1 THEN decompress_rle_step(data, bpp, expected_pixels, st)
    ELSE decompress_rle_loop(
             data, bpp, expected_pixels,
             decompress_rle_loop(data, bpp, expected_pixels, st, k \div 2),
             k - (k \div 2))

decompress_rle(data, bpp, expected_pixels) ==
    IF bpp < 1 \/ bpp > 4 THEN Raise("ValueError")
    ELSE Ok(SubSeq(decompress_rle_loop(data, bpp, expected_pixels,
                                       [pos |-> 0, pixels |-> <<>>],
                                       expected_pixels).pixels,
                   1, expected_pixels))

(***************************************************************************)
(* writer.py: LVGLWriter._flatten_bitmap                                   *)
(***************************************************************************)
\* a packer that fills each byte from its low bits upwards
RECURSIVE pack_byte_lsb_first(_, _, _, _, _)
pack_byte_lsb_first(flat, i, bpp, per, j) ==
    IF j = 0 THEN 0
    ELSE pack_byte_lsb_first(flat, i, bpp, per, j - 1)
         + (IF i + (j - 1) < Len(flat)
            THEN (flat[i + (j - 1) + 1] % (2 ^ bpp)) * (2 ^ ((j - 1) * bpp))
            ELSE 0)

RECURSIVE pack_byte(_, _, _, _, _)
\* for j in range(per): if i+j < len(flat):
\*     byte |= (flat[i+j] & mask) << (8 - bpp - j*bpp)
\* (the fields are disjoint, so |= adds); j counts down here
pack_byte(flat, i, bpp, per, j) ==
    IF j = 0 THEN 0
    ELSE pack_byte(flat, i, bpp, per, j - 1)
         + (IF i + (j - 1) < Len(flat)
            THEN (flat[i + (j - 1) + 1] % (2 ^ bpp))
                 * (2 ^ (8 - bpp - (j - 1) * bpp))
            ELSE 0)

\* for i in range(0, len(flat), per): one byte each
pack_bytes(flat, bpp, per) ==
    [k \in 1..((Len(flat) + per - 1) \div per) |->
        pack_byte(flat, (k - 1) * per, bpp, per, per)]

flatten_bitmap(bitmap, bpp) ==
    LET flat == bitmap.d
    IN IF bpp = 8 THEN Ok(flat)
       ELSE IF bpp = 4 THEN Ok(pack_bytes(flat, 4, 2))
       ELSE IF bpp = 2 THEN Ok(pack_bytes(flat, 2, 4))
       ELSE IF bpp = 1 THEN Ok(pack_bytes(flat, 1, 8))
       ELSE Raise("ValueError")

(***************************************************************************)
(* structures.py: enumerations, CmapSubtable, LVGLCmap, LVGLFont           *)
(*                                                                         *)
(* A GlyphData is [glyph_id, unicode, bitmap, bitmap_index, box_w, box_h], *)
(* a CmapSubtable [range_start, range_length, glyph_id_start, format,      *)
(* unicode_list, glyph_id_ofs_list], an LVGLFont [name, head, cmap, glyf]  *)
(* with head = [bpp, compression_id], glyf = [glyphs, bpp, compression]    *)
(* and cmap the list of subtables.  The advance and offset metrics, which  *)
(* are only copied to the output, and the (empty) kerning table are left   *)
(* out.                                                                    *)
(***************************************************************************)
NONE == 0
RLE == 1
RLE_NO_PREFILTER == 2

FORMAT0_TINY == 0
FORMAT0_FULL == 1
SPARSE_TINY == 2
SPARSE_FULL == 3

MaxOf(S) == IF S = {} THEN 0 ELSE CHOOSE x \in S : \A y \in S : y <= x
Elems(seq) == {seq[i] : i \in 1..Len(seq)}

range_end(st) == st.range_start + st.range_length - 1

entries_count(st) ==
    IF st.unicode_list # <<>> THEN Len(st.unicode_list)
    ELSE IF st.glyph_id_ofs_list # <<>> THEN Len(st.glyph_id_ofs_list)
    ELSE 0

\* list.index(x): the 0-based position of the first x
IndexOf(list, x) ==
    (CHOOSE i \in 1..Len(list) :
        list[i] = x /\ \A j \in 1..(i - 1) : list[j] # x) - 1

Found(id) == [found |-> TRUE, id |-> id]
NotFound == [found |-> FALSE, id |-> 0]

\* the same loop body with a range test that lets through the codepoint
\* just past the end of the range
subtable_glyph_id_open_end(st, unicode) ==
    IF ~(st.range_start <= unicode /\ unicode <= range_end(st) + 1)
    THEN NotFound
    ELSE IF st.format \in {FORMAT0_TINY, FORMAT0_FULL}
    THEN Found(st.glyph_id_start + (unicode - st.range_start))
    ELSE NotFound

\* the body of find_glyph_id's loop for one subtable: the glyph id the
\* subtable gives the codepoint, or NotFound when the loop goes on
subtable_glyph_id(st, unicode) ==
    IF ~(st.range_start <= unicode /\ unicode <= range_end(st)) THEN NotFound
    ELSE IF st.format \in {FORMAT0_TINY, FORMAT0_FULL}
    THEN IF st.glyph_id_ofs_list # <<>>
         THEN Found(st.glyph_id_start
                    + st.glyph_id_ofs_list[(unicode - st.range_start) + 1])
         ELSE Found(st.glyph_id_start + (unicode - st.range_start))
    ELSE IF st.unicode_list # <<>> /\ unicode \in Elems(st.unicode_list)
    THEN IF st.glyph_id_ofs_list # <<>>
         THEN Found(st.glyph_id_start
                    + st.glyph_id_ofs_list[IndexOf(st.unicode_list, unicode) + 1])
         ELSE Found(st.glyph_id_start + IndexOf(st.unicode_list, unicode))
    ELSE NotFound

\* LVGLCmap.find_glyph_id: the first subtable that answers
find_glyph_id(cmap, unicode) ==
    IF \E k \in 1..Len(cmap) : subtable_glyph_id(cmap[k], unicode).found
    THEN subtable_glyph_id(
             cmap[CHOOSE k \in 1..Len(cmap) :
                     /\ subtable_glyph_id(cmap[k], unicode).found
                     /\ \A j \in 1..(k - 1) :
                            ~subtable_glyph_id(cmap[j], unicode).found],
             unicode)
    ELSE NotFound

\* what one subtable contributes to LVGLCmap.total_glyphs
subtable_max_id(st) ==
    IF st.format \in {FORMAT0_TINY, FORMAT0_FULL}
    THEN st.glyph_id_start + st.range_length
    ELSE IF st.glyph_id_ofs_list # <<>>
    THEN st.glyph_id_start + MaxOf(Elems(st.glyph_id_ofs_list))
    ELSE st.glyph_id_start + entries_count(st)

total_glyphs(cmap) == MaxOf({0} \cup {subtable_max_id(cmap[k]) : k \in 1..Len(cmap)})

glyph_count(f) == Len(f.glyf.glyphs)

glyph_ids(f) == [k \in 1..Len(f.glyf.glyphs) |-> f.glyf.glyphs[k].glyph_id]

\* glyph_ids == sorted(glyph_ids)
IsSorted(ids) == \A i \in 1..(Len(ids) - 1) : ids[i] <= ids[i + 1]

ErrName == "font name is empty"
ErrCount == "glyph count is 0"
ErrBpp == "bpp mismatch"
ErrCompression == "compression mismatch"
ErrUnsorted == "glyph ids not sorted"
ErrCmap == "cmap references a missing glyph id"

\* LVGLFont.validate: the list of errors, in the order of the checks
validate(f) ==
    (IF f.name = "" THEN <<ErrName>> ELSE <<>>)
    \o (IF glyph_count(f) = 0 THEN <<ErrCount>> ELSE <<>>)
    \o (IF f.head.bpp # f.glyf.bpp THEN <<ErrBpp>> ELSE <<>>)
    \o (IF f.head.compression_id # f.glyf.compression
        THEN <<ErrCompression>> ELSE <<>>)
    \o (IF ~IsSorted(glyph_ids(f)) THEN <<ErrUnsorted>> ELSE <<>>)
    \o (IF total_glyphs(f.cmap) > MaxOf(Elems(glyph_ids(f))) + 1
        THEN <<ErrCmap>> ELSE <<>>)

(***************************************************************************)
(* compress.py: apply_xor_prefilter, compress_rle_with_xor (2-D input)     *)
(***************************************************************************)
\* filtered[0] = pixels[0] raises IndexError on an array without rows
\* the number of dimensions of an array: flat arrays carry their length n,
\* bitmaps (h, w), stacks of bitmaps (p, h, w)
ndim(a) ==
    IF "p" \in DOMAIN a THEN 3
    ELSE IF "h" \in DOMAIN a THEN 2
    ELSE 1

\* a pre-filter that leaves the first row of its result at zero
apply_xor_prefilter_blank_first(pixels) ==
    IF ndim(pixels) # 2 THEN Raise("ValueError")
    ELSE IF pixels.h = 0 THEN Raise("IndexError")
    ELSE Ok([i \in 1..(pixels.h * pixels.w) |->
                IF i <= pixels.w THEN 0
                ELSE Xor(pixels.d[i], pixels.d[i - pixels.w])])

apply_xor_prefilter(pixels) ==
    IF ndim(pixels) # 2 THEN Raise("ValueError")
    ELSE IF pixels.h = 0 THEN Raise("IndexError")
    ELSE Ok([i \in 1..(pixels.h * pixels.w) |->
                IF i <= pixels.w THEN pixels.d[i]
                ELSE Xor(pixels.d[i], pixels.d[i - pixels.w])])

compress_rle_filtered(filtered, bpp) ==
    IF filtered.err # "" THEN filtered ELSE compress_rle(filtered.out, bpp)

compress_rle_with_xor(pixels, bpp, width, height) ==
    IF <<pixels.h, pixels.w>> # <<height, width>> THEN Raise("ValueError")
    ELSE compress_rle_filtered(apply_xor_prefilter(pixels), bpp)

(***************************************************************************)
(* writer.py: LVGLWriter                                                   *)
(*                                                                         *)
(* The generated C text is the record of what its sections hold:           *)
(*   glyph_bitmap  one entry [unicode, data] per glyph with bitmap bytes,  *)
(*   glyph_dsc     the descriptors [bitmap_index, box_w, box_h],           *)
(*   cmap_defs     the emitted arrays [array, idx, values],                *)
(*   cmaps         the subtable headers.                                   *)
(***************************************************************************)
\* the "compress bitmap" branch of _generate_glyf_section for one glyph
glyph_bitmap_data(f, glyph) ==
    IF f.head.compression_id = NONE
    THEN flatten_bitmap(glyph.bitmap, f.head.bpp)
    ELSE IF f.head.compression_id = RLE
    THEN compress_rle_with_xor(glyph.bitmap, f.head.bpp, glyph.box_w,
                               glyph.box_h)
    ELSE compress_rle(glyph.bitmap.d, f.head.bpp)

\* a glyf loop that does not skip the reserved glyph
emitted_glyphs_unfiltered(f) == f.glyf.glyphs

\* the glyphs the loops of _generate_glyf_section do not skip
emitted_glyphs(f) == SelectSeq(f.glyf.glyphs, LAMBDA g : g.glyph_id # 0)

ReservedDsc == [bitmap_index |-> 0, box_w |-> 0, box_h |-> 0]

generate_glyf_section(f) ==
    LET glyphs == emitted_glyphs(f)
        data == [k \in 1..Len(glyphs) |-> glyph_bitmap_data(f, glyphs[k])]
        failed == {k \in 1..Len(glyphs) : data[k].err # ""}
        entries == [k \in 1..Len(glyphs) |->
                       [unicode |-> glyphs[k].unicode, data |-> data[k].out]]
    IN IF failed # {}
       THEN Raise(data[CHOOSE k \in failed : \A j \in failed : k <= j].err)
       ELSE Ok([glyph_bitmap |->
                    SelectSeq(entries, LAMBDA e : Len(e.data) > 0),
                glyph_dsc |->
                    <<ReservedDsc>> \o
                    [k \in 1..Len(glyphs) |->
                        [bitmap_index |-> glyphs[k].bitmap_index,
                         box_w |-> glyphs[k].box_w,
                         box_h |-> glyphs[k].box_h]]])

\* the arrays _generate_cmap_section defines for subtable idx (0-based)
cmap_subtable_defs(st, idx) ==
    (IF st.format \in {SPARSE_TINY, SPARSE_FULL} /\ st.unicode_list # <<>>
     THEN <<[array |-> "unicode_list", idx |-> idx,
             values |-> st.unicode_list]>>
     ELSE <<>>)
    \o (IF st.format \in {FORMAT0_FULL, SPARSE_FULL}
           /\ st.glyph_id_ofs_list # <<>>
        THEN <<[array |-> "glyph_id_ofs_list", idx |-> idx,
                values |-> st.glyph_id_ofs_list]>>
        ELSE <<>>)

cmap_subtable_header(st, idx) ==
    [range_start |-> st.range_start, range_length |-> st.range_length,
     glyph_id_start |-> st.glyph_id_start,
     unicode_list |-> IF st.unicode_list # <<>> THEN "unicode_list" ELSE "NULL",
     glyph_id_ofs_list |->
         IF st.glyph_id_ofs_list # <<>> THEN "glyph_id_ofs_list" ELSE "NULL",
     idx |-> idx, list_length |-> entries_count(st), type |-> st.format]

RECURSIVE ConcatAll(_)
ConcatAll(seqs) ==
    IF seqs = <<>> THEN <<>> ELSE seqs[1] \o ConcatAll(Tail(seqs))

generate_cmap_section(f) ==
    [cmap_defs |-> ConcatAll([k \in 1..Len(f.cmap) |->
                                 cmap_subtable_defs(f.cmap[k], k - 1)]),
     cmaps |-> [k \in 1..Len(f.cmap) |->
                   cmap_subtable_header(f.cmap[k], k - 1)]]

EmptyText == [glyph_bitmap |-> <<>>, glyph_dsc |-> <<>>, cmap_defs |-> <<>>,
              cmaps |-> <<>>]

\* a writer that remembers having emitted and leaves the bitmap array out
\* of every later text
generate_c_code_once(f) ==
    LET glyf_section == generate_glyf_section(f)
        cmap_section == generate_cmap_section(f)
    IN IF glyf_section.err # "" THEN [err |-> glyf_section.err,
                                      out |-> EmptyText]
       ELSE [err |-> "",
             out |-> [glyph_bitmap |-> IF emitted = <<>>
                                       THEN glyf_section.out.glyph_bitmap
                                       ELSE <<>>,
                      glyph_dsc |-> glyf_section.out.glyph_dsc,
                      cmap_defs |-> cmap_section.cmap_defs,
                      cmaps |-> cmap_section.cmaps]]

generate_c_code(f) ==
    LET glyf_section == generate_glyf_section(f)
        cmap_section == generate_cmap_section(f)
    IN IF glyf_section.err # "" THEN [err |-> glyf_section.err,
                                      out |-> EmptyText]
       ELSE [err |-> "",
             out |-> [glyph_bitmap |-> glyf_section.out.glyph_bitmap,
                      glyph_dsc |-> glyf_section.out.glyph_dsc,
                      cmap_defs |-> cmap_section.cmap_defs,
                      cmaps |-> cmap_section.cmaps]]

NoFile == [exists |-> FALSE, text |-> EmptyText]
FileWith(text) == [exists |-> TRUE, text |-> text]

\* a writer that opens the output file before it has the text to write
write_outcome_truncating(f, old) ==
    IF validate(f) # <<>> THEN [res |-> "ValueError", file |-> old]
    ELSE IF generate_c_code(f).err # ""
    THEN [res |-> generate_c_code(f).err, file |-> FileWith(EmptyText)]
    ELSE [res |-> "ok", file |-> FileWith(generate_c_code(f).out)]

\* LVGLWriter.write(font, output_path): how it ends and what the output
\* file then is, given what it was
write_outcome(f, old) ==
    LET c_code == generate_c_code(f)
    IN IF validate(f) # <<>> THEN [res |-> "ValueError", file |-> old]
       ELSE IF c_code.err # "" THEN [res |-> c_code.err, file |-> old]
       ELSE [res |-> "ok", file |-> FileWith(c_code.out)]

(***************************************************************************)
(* Project files (core/project.py, ui/config_widget.py).  A file name is   *)
(* the pair <<stem, suffix>> that pathlib splits it into; a Python dict is *)
(* a function on its keys; a file is a record tagged with its kind.        *)
(***************************************************************************)
NoPath == <<>>                                  \* file_path = None
Stem(path) == path[1]
Suffix(path) == path[2]
with_suffix(path, suffix) == <<path[1], suffix>>

\* dict.get(key, default)
Get(data, key, default) == IF key \in DOMAIN data THEN data[key] ELSE default

\* x or y for strings
OrElse(x, y) == IF x = "" THEN y ELSE x

\* ConvertConfig(): the defaults of the dataclass
ConvertConfig ==
    [font_size |-> 16, bpp |-> 4, compression |-> "rle", lvgl_version |-> 8,
     output_format |-> "lvgl", output_dir |-> "./output",
     output_name |-> "my_font", no_compress |-> FALSE,
     no_prefilter |-> FALSE, no_kerning |-> FALSE, lcd |-> FALSE,
     lcd_v |-> FALSE]

ConvertConfig_to_dict(self) ==
    [font_size |-> self.font_size, bpp |-> self.bpp,
     compression |-> self.compression, lvgl_version |-> self.lvgl_version,
     output_format |-> self.output_format, output_dir |-> self.output_dir,
     output_name |-> self.output_name, no_compress |-> self.no_compress,
     no_prefilter |-> self.no_prefilter, no_kerning |-> self.no_kerning,
     lcd |-> self.lcd, lcd_v |-> self.lcd_v]

ConvertConfig_from_dict(data) ==
    [font_size |-> Get(data, "font_size", 16),
     bpp |-> Get(data, "bpp", 4),
     compression |-> Get(data, "compression", "rle"),
     lvgl_version |-> Get(data, "lvgl_version", 8),
     output_format |-> Get(data, "output_format", "lvgl"),
     output_dir |-> Get(data, "output_dir", "./output"),
     output_name |-> Get(data, "output_name", "my_font"),
     no_compress |-> Get(data, "no_compress", FALSE),
     no_prefilter |-> Get(data, "no_prefilter", FALSE),
     no_kerning |-> Get(data, "no_kerning", FALSE),
     lcd |-> Get(data, "lcd", FALSE),
     lcd_v |-> Get(data, "lcd_v", FALSE)]

\* a source whose display name is kept as it is written
FontSource_to_dict_verbatim(self) ==
    [path |-> self.path, ranges |-> self.ranges, symbols |-> self.symbols,
     display_name |-> self.display_name]

FontSource_to_dict(self) ==
    [path |-> self.path, ranges |-> self.ranges, symbols |-> self.symbols,
     display_name |-> OrElse(self.display_name, Stem(self.path))]

\* data["path"] raises KeyError when the key is missing
FontSource_from_dict(data) ==
    IF "path" \notin DOMAIN data THEN Raise("KeyError")
    ELSE Ok([path |-> data["path"],
             ranges |-> Get(data, "ranges", <<>>),
             symbols |-> Get(data, "symbols", ""),
             display_name |-> Get(data, "display_name", "")])

\* Project(): what __init__ and new() set
NewProject ==
    [file_path |-> NoPath, fonts |-> <<>>, config |-> ConvertConfig,
     modified |-> FALSE]

VERSION == "1.0"

Project_to_dict(self) ==
    [version |-> VERSION,
     fonts |-> [i \in 1..Len(self.fonts) |-> FontSource_to_dict(self.fonts[i])],
     config |-> ConvertConfig_to_dict(self.config)]

Project_from_dict(data) ==
    LET fonts_data == Get(data, "fonts", <<>>)
        config_data == Get(data, "config", <<>>)
        fonts == [i \in 1..Len(fonts_data) |->
                     FontSource_from_dict(fonts_data[i])]
    IN IF \E i \in 1..Len(fonts) : fonts[i].err # ""
       THEN Raise("KeyError")
       ELSE Ok([file_path |-> NoPath,
                fonts |-> [i \in 1..Len(fonts) |-> fonts[i].out],
                config |-> ConvertConfig_from_dict(config_data),
                modified |-> FALSE])

\* file contents
Missing == [kind |-> "missing"]                 \* no such file
Garbage == [kind |-> "garbage"]                 \* text that is not JSON
json_dump(data) == [kind |-> "json", json |-> data]
json_load(text) ==
    IF text.kind # "json" THEN Raise("JSONDecodeError") ELSE Ok(text.json)

\* files that open(path, 'w') cannot create
Unwritable == {<<"readonly", ".lvfc">>}

\* the name save() writes to
save_target(file_path) ==
    IF Suffix(file_path) # ".lvfc" THEN with_suffix(file_path, ".lvfc")
    ELSE file_path

\* Project.save(file_path): what it returns, the project and the files
\* afterwards
save(self, file_path, files) ==
    IF save_target(file_path) \in Unwritable
    THEN [res |-> "False", self |-> self, files |-> files]
    ELSE [res |-> "True",
          self |-> [self EXCEPT !.file_path = save_target(file_path),
                                !.modified = FALSE],
          files |-> [files EXCEPT ![save_target(file_path)] =
                        json_dump(Project_to_dict(self))]]

\* a load that takes over the path and clears the flag before it parses
load_assigning_first(self, file_path, files) ==
    IF files[file_path] = Missing THEN [res |-> "False", self |-> self]
    ELSE IF json_load(files[file_path]).err # ""
            \/ Project_from_dict(json_load(files[file_path]).out).err # ""
    THEN [res |-> "False",
          self |-> [self EXCEPT !.file_path = file_path, !.modified = FALSE]]
    ELSE [res |-> "True",
          self |-> [file_path |-> file_path,
                    fonts |-> Project_from_dict(
                                  json_load(files[file_path]).out).out.fonts,
                    config |-> Project_from_dict(
                                  json_load(files[file_path]).out).out.config,
                    modified |-> FALSE]]

\* Project.load(file_path): what it returns and the project afterwards
load(self, file_path, files) ==
    IF files[file_path] = Missing THEN [res |-> "False", self |-> self]
    ELSE IF json_load(files[file_path]).err # ""
    THEN [res |-> "False", self |-> self]
    ELSE IF Project_from_dict(json_load(files[file_path]).out).err # ""
    THEN [res |-> "False", self |-> self]
    ELSE [res |-> "True",
          self |-> [file_path |-> file_path,
                    fonts |-> Project_from_dict(
                                  json_load(files[file_path]).out).out.fonts,
                    config |-> Project_from_dict(
                                  json_load(files[file_path]).out).out.config,
                    modified |-> FALSE]]

\* Project.mark_modified()
mark_modified(self) == [self EXCEPT !.modified = TRUE]

\* Config._get_default_settings(): the two keys add_recent_project reads
DefaultSettings == [recent_projects |-> <<>>, max_recent_projects |-> 10]

\* list.remove(x): the list without the first x
list_remove(list, x) ==
    [i \in 1..(Len(list) - 1) |->
        IF i <= IndexOf(list, x) THEN list[i] ELSE list[i + 1]]

\* list[:n] for n >= 0
list_head(list, n) == SubSeq(list, 1, IF n < Len(list) THEN n ELSE Len(list))

\* an add_recent_project that does not look for the path in the list
add_recent_project_keeping_old(self, project_path) ==
    [self EXCEPT !.recent_projects =
        list_head(<<project_path>> \o self.recent_projects,
                  self.max_recent_projects)]

\* Config.add_recent_project(project_path): self.settings afterwards
add_recent_project(self, project_path) ==
    LET recent == self.recent_projects
        removed == IF project_path \in Elems(recent)
                   THEN list_remove(recent, project_path)
                   ELSE recent
        inserted == <<project_path>> \o removed
        max_recent == self.max_recent_projects
    IN [self EXCEPT !.recent_projects = list_head(inserted, max_recent)]

\* the file names of the model and the empty disk
Paths ==
    {<<"a", ".lvfc">>, <<"a", ".lvproj">>, <<"b", "">>,
     <<"readonly", ".lvfc">>}
Files == Paths \cup {save_target(p) : p \in Paths}
EmptyDisk == [p \in Files |-> Missing]

(***************************************************************************)
(* Codec harness: one pixel stream through the packer and the codec        *)
(***************************************************************************)
CodecInputs(b) ==
    {Expand(r) : r \in SeqsUpTo(PixelValues(b) \X RunLens, MaxRuns)}

MaxAlternating == 9             \* length of a stream without equal neighbours

\* streams in which no two neighbours are equal: two values taking turns
Alternating(b) ==
    {[i \in 1..n |-> IF i % 2 = 1 THEN v[1] ELSE v[2]] :
        v \in {w \in PixelValues(b) \X PixelValues(b) : w[1] # w[2]},
        n \in 0..MaxAlternating}

\* a flat stream seen as a one-row bitmap
AsBitmap(flat) == [h |-> 1, w |-> Len(flat), d |-> flat]

\* ConversionParams(): the defaults of the dataclass
DefaultParams == [bpp |-> 4, compression |-> "none", lvgl_version |-> 9]

EmptyGlyf == [glyphs |-> <<>>, bpp |-> 4, compression |-> NONE]
EmptyFont ==
    [name |-> "", head |-> [bpp |-> 4, compression_id |-> NONE],
     cmap |-> <<>>, glyf |-> EmptyGlyf]

\* the harness variables of a specification that does not use them
CodecIdle ==
    /\ cbpp = 1
    /\ px = <<>>
    /\ cpc = "idle"
    /\ packedOut = Ok(<<>>)
    /\ rleOut = Ok(<<>>)
    /\ rleBack = Ok(<<>>)

FontIdle ==
    /\ font = EmptyFont
    /\ errors = <<>>
    /\ file = NoFile
    /\ wres = ""
    /\ fpc = "idle"

JobIdle ==
    /\ cfg = [bpp |-> 4, compression |-> "none", lvgl_version |-> 9,
              codepoints |-> {}, loadable |-> TRUE]
    /\ cpos = "idle"
    /\ todo = <<>>
    /\ glyf = EmptyGlyf
    /\ bitmap_offset = 0
    /\ glyph_id = 0
    /\ char_to_glyph_id = <<>>
    /\ rendered = 0
    /\ result = ""
    /\ failed_at = ""
    /\ lvgl_font = EmptyFont
    /\ output = NoFile

FcIdle ==
    /\ params = DefaultParams
    /\ set_calls = 0
    /\ set_res = ""
    /\ used = <<>>

ConvertIdle == JobIdle /\ FcIdle

PixelsIdle ==
    /\ gray = [h |-> 0, w |-> 0, d |-> <<>>]
    /\ qbpp = 4
    /\ ppc = "idle"
    /\ quantized = [h |-> 0, w |-> 0, d |-> <<>>]
    /\ xored = Ok(<<>>)

BitsIdle ==
    /\ stream = BitStreamInit
    /\ written = <<>>
    /\ nwrites = 0
    /\ last_op = "idle"
    /\ flushed = <<>>
    /\ flushed_bits = <<>>

EmitIdle ==
    /\ efont = EmptyFont
    /\ efont0 = EmptyFont
    /\ emitted = <<>>

ProjectIdle ==
    /\ saved_project = NewProject
    /\ fresh_project = NewProject
    /\ disk = EmptyDisk
    /\ save_path = NoPath
    /\ save_res = ""
    /\ load_path = NoPath
    /\ load_res = ""

ThreadIdle ==
    /\ thread_fonts = <<>>
    /\ tpc = "start"
    /\ font_i = 0
    /\ glyph_i = 0
    /\ is_cancelled = FALSE
    /\ finished = <<>>
    /\ converted = <<>>
    /\ glyphs_done = 0
    /\ cancel_mark = -1

WindowIdle ==
    /\ project = NewProject
    /\ font_sources = <<>>
    /\ shown_config = ConvertConfig
    /\ config_shared = FALSE
    /\ win_disk = EmptyDisk
    /\ win_last = ""
    /\ win_steps = 0

RecentIdle ==
    /\ settings = DefaultSettings
    /\ before_add = <<>>
    /\ last_added = ""
    /\ adds = 0

AppIdle == ThreadIdle /\ WindowIdle /\ RecentIdle

UnitIdle == PixelsIdle /\ BitsIdle /\ EmitIdle /\ ProjectIdle /\ AppIdle

CodecInit ==
    /\ cbpp \in CodecBpps
    /\ px \in CodecInputs(cbpp) \cup Alternating(cbpp)
    /\ cpc = "input"
    /\ packedOut = Ok(<<>>)
    /\ rleOut = Ok(<<>>)
    /\ rleBack = Ok(<<>>)
    /\ FontIdle
    /\ ConvertIdle
    /\ UnitIdle

\* LVGLWriter._flatten_bitmap(bitmap, bpp)
Flatten ==
    /\ cpc = "input"
    /\ packedOut' = flatten_bitmap(AsBitmap(px), cbpp)
    /\ cpc' = "packed"
    /\ UNCHANGED <<cbpp, px, rleOut, rleBack, fontVars, convVars, unitVars>>

\* compress_rle(pixels, bpp)
Compress ==
    /\ cpc = "input"
    /\ rleOut' = compress_rle(px, cbpp)
    /\ cpc' = "compressed"
    /\ UNCHANGED <<cbpp, px, packedOut, rleBack, fontVars, convVars, unitVars>>

\* decompress_rle(data, bpp, len(pixels)) on what compress_rle returned
Decompress ==
    /\ cpc = "compressed"
    /\ rleOut.err = ""
    /\ rleBack' = decompress_rle(rleOut.out, cbpp, Len(px))
    /\ cpc' = "decoded"
    /\ UNCHANGED <<cbpp, px, packedOut, rleOut, fontVars, convVars, unitVars>>

CodecNext == Flatten \/ Compress \/ Decompress

SpecCodec == CodecInit /\ [][CodecNext]_vars

(***************************************************************************)
(* Properties of the packer and the codec (checked under SpecCodec)        *)
(***************************************************************************)
\* C1: RLE round trip.  For every bpp in 1..4 and every pixel sequence p
\* with values below 2^bpp, decompress_rle(compress_rle(p, bpp), bpp,
\* len(p)) returns exactly p.
C1_RleRoundTrip ==
    (cpc = "decoded" /\ cbpp \in 1..4) => rleBack = Ok(px)

\* the i-th (0-based) bpp-bit group of a byte sequence, read MSB-first
GroupAt(bytes, i, bpp) ==
    (bytes[((i * bpp) \div 8) + 1] \div (2 ^ (8 - bpp - ((i * bpp) % 8))))
        % (2 ^ bpp)

\* bit number pos (0-based, MSB-first) of a byte sequence
BitAt(bytes, pos) == (bytes[(pos \div 8) + 1] \div (2 ^ (7 - (pos % 8)))) % 2

\* C8: _flatten_bitmap packs n pixel values MSB-first without padding
\* between pixels.  For bpp 8 the output bytes are the input values; for
\* bpp 1, 2 and 4 the output has ceil(n * bpp / 8) bytes, reading it back
\* MSB-first in bpp-bit groups yields the n values, and the unused low bits
\* of the final byte are zero.
C8_FlattenPacksMsbFirst ==
    (cpc = "packed" /\ cbpp \in {1, 2, 4, 8}) =>
        /\ packedOut.err = ""
        /\ cbpp = 8 => packedOut.out = px
        /\ cbpp \in {1, 2, 4} =>
            /\ Len(packedOut.out) = ((Len(px) * cbpp) + 7) \div 8
            /\ \A i \in 0..(Len(px) - 1) :
                   GroupAt(packedOut.out, i, cbpp) = px[i + 1]
            /\ \A pos \in (Len(px) * cbpp)..((8 * Len(packedOut.out)) - 1) :
                   BitAt(packedOut.out, pos) = 0

\* a packed stream of several bytes whose last byte is partly padding and
\* whose last pixel is not zero
C8_Witness ==
    /\ cpc = "packed"
    /\ cbpp \in {1, 2, 4}
    /\ Len(px) > 8
    /\ (Len(px) * cbpp) % 8 # 0
    /\ px[Len(px)] # 0
    /\ px[1] # px[Len(px)]
    /\ Len(packedOut.out) > 1

(***************************************************************************)
(* Font harness: a caller builds an LVGLFont, may call validate() on it,   *)
(* and hands it to LVGLWriter.write()                                      *)
(***************************************************************************)
\* a 2 x 2 bitmap whose values fit every depth from 2 bits up
SolidBitmap == [h |-> 2, w |-> 2, d |-> <<3, 3, 1, 0>>]

\* np.zeros((0, 0)): what the renderer returns for a glyph without area
ZeroAreaBitmap == [h |-> 0, w |-> 0, d |-> <<>>]

\* the k-th glyph of a table; bitmap_index is only copied by the writer
MkGlyph(id, k, zero_area) ==
    [glyph_id |-> id, unicode |-> 64 + k,
     bitmap |-> IF zero_area THEN ZeroAreaBitmap ELSE SolidBitmap,
     bitmap_index |-> 0,
     box_w |-> IF zero_area THEN 0 ELSE 2,
     box_h |-> IF zero_area THEN 0 ELSE 2]

\* glyph tables: every id sequence, the last glyph with or without area
GlyphTables ==
    {[k \in 1..Len(ids) |-> MkGlyph(ids[k], k, z /\ k = Len(ids))] :
        ids \in SeqsUpTo(GlyphIds, MaxGlyphs), z \in BOOLEAN}

MkSubtable(fmt, len, start, ulist, olist) ==
    [range_start |-> 65, range_length |-> len, glyph_id_start |-> start,
     format |-> fmt, unicode_list |-> ulist, glyph_id_ofs_list |-> olist]

\* the first glyph id of a subtable
GlyphIdStarts == {1, 2}

\* contiguous subtables; a FORMAT0_FULL one may carry an offset list with
\* one entry per codepoint of the range
Format0Subtables ==
    {MkSubtable(FORMAT0_TINY, len, start, <<>>, <<>>) :
        len \in {1, 2}, start \in GlyphIdStarts}
    \cup {MkSubtable(FORMAT0_FULL, len, start, <<>>, <<>>) :
            len \in {1, 2}, start \in GlyphIdStarts}
    \cup {MkSubtable(FORMAT0_FULL, 2, start, <<>>, <<0, 0>>) :
            start \in GlyphIdStarts}

\* sparse subtables: a codepoint list, and for SPARSE_FULL possibly an
\* offset list of the same length
SparseSubtables ==
    {MkSubtable(SPARSE_TINY, 2, start, ulist, <<>>) :
        start \in GlyphIdStarts, ulist \in {<<65>>, <<65, 66>>}}
    \cup {MkSubtable(SPARSE_FULL, 2, start, <<65>>, olist) :
            start \in GlyphIdStarts, olist \in {<<>>, <<1>>}}
    \cup {MkSubtable(SPARSE_FULL, 2, start, <<65, 66>>, <<0, 1>>) :
            start \in GlyphIdStarts}

Cmaps == {<<>>} \cup {<<st>> : st \in Format0Subtables \cup SparseSubtables}

BppPairs == {<<4, 4>>, <<4, 2>>, <<3, 3>>}
CompressionPairs ==
    {<<NONE, NONE>>, <<RLE, RLE>>, <<RLE_NO_PREFILTER, RLE_NO_PREFILTER>>,
     <<RLE, NONE>>}

Fonts ==
    {[name |-> n,
      head |-> [bpp |-> b[1], compression_id |-> c[1]],
      cmap |-> cm,
      glyf |-> [glyphs |-> g, bpp |-> b[2], compression |-> c[2]]] :
        n \in {"", "font"}, b \in BppPairs, c \in CompressionPairs,
        cm \in Cmaps, g \in GlyphTables}

\* the output path names no file yet, or a file written earlier
OldFile == FileWith(EmptyText)

FontInit ==
    /\ font \in Fonts
    /\ errors = <<>>
    /\ file \in {NoFile, OldFile}
    /\ wres = ""
    /\ fpc = "init"
    /\ CodecIdle
    /\ ConvertIdle
    /\ UnitIdle

\* errors = font.validate()
Validate ==
    /\ fpc = "init"
    /\ errors' = validate(font)
    /\ fpc' = "validated"
    /\ UNCHANGED <<font, file, wres, codecVars, convVars, unitVars>>

\* LVGLWriter().write(font, output_path)
Write ==
    /\ fpc \in {"init", "validated"}
    /\ LET outcome == write_outcome(font, file)
       IN wres' = outcome.res /\ file' = outcome.file
    /\ fpc' = "written"
    /\ UNCHANGED <<font, errors, codecVars, convVars, unitVars>>

FontNext == Validate \/ Write

SpecFont == FontInit /\ [][FontNext]_vars

(***************************************************************************)
(* Properties of validate() and write() (checked under SpecFont)           *)
(***************************************************************************)
GeneratedText == generate_c_code(font)

\* C3: LVGLWriter.write has no partial success.  It either writes the
\* complete generated text to the output file or leaves the file as it
\* was: when validate() reports a violation it raises ValueError and the
\* file is untouched (whatever generation would have done), when code
\* generation raises the file is neither created nor modified, and
\* otherwise the file holds exactly the generated text.
C3_WriteAllOrNothing ==
    [][(fpc # "written" /\ fpc' = "written") =>
          LET violations == validate(font)
              text == GeneratedText
          IN /\ violations # <<>> => (wres' = "ValueError" /\ file' = file)
             /\ (violations = <<>> /\ text.err # "") =>
                    (wres' = text.err /\ file' = file)
             /\ (violations = <<>> /\ text.err = "") =>
                    (wres' = "ok" /\ file' = FileWith(text.out))
             /\ file' # file =>
                    (wres' = "ok" /\ file' = FileWith(text.out))]_vars

\* write() was called on a valid font whose code generation raised, and
\* the file written earlier is still what it was
C3_Witness ==
    /\ fpc = "written"
    /\ validate(font) = <<>>
    /\ GeneratedText.err # ""
    /\ wres = GeneratedText.err
    /\ file = OldFile

\* the glyph ids one subtable maps the codepoints of its range to
ReferencedIds(st) ==
    {subtable_glyph_id(st, u).id :
        u \in {c \in st.range_start..range_end(st) :
                  subtable_glyph_id(st, c).found}}

\* some subtable maps a codepoint to an id no glyph of the table carries
Dangling(f) ==
    \E k \in 1..Len(f.cmap) :
        ReferencedIds(f.cmap[k]) \ Elems(glyph_ids(f)) # {}

\* C4: validate() reports a cmap violation iff some cmap subtable, of
\* whatever format, maps a codepoint to a glyph id that is not the id of
\* any glyph in the glyph table.
C4_CmapCheckIffDangling ==
    fpc = "validated" => ((ErrCmap \in Elems(errors)) <=> Dangling(font))

StrictlyAscending(ids) == \A i \in 1..(Len(ids) - 1) : ids[i] < ids[i + 1]

\* a font that satisfies every invariant validation is meant to check
Consistent(f) ==
    /\ f.name # ""
    /\ glyph_count(f) > 0
    /\ f.head.bpp = f.glyf.bpp
    /\ f.head.compression_id = f.glyf.compression
    /\ StrictlyAscending(glyph_ids(f))
    /\ ~Dangling(f)

\* C5: validate() returns the complete list of violated invariants: for
\* each of the checks name non-empty, glyph count > 0, head.bpp = glyf.bpp
\* and head.compression = glyf.compression an entry is present iff the
\* check fails; head.bpp = 4 with glyf.bpp = 2 yields a non-empty list
\* with a bpp-mismatch entry; and a consistent font yields the empty list.
C5_ValidateCompleteList ==
    fpc = "validated" =>
        /\ (ErrName \in Elems(errors)) <=> (font.name = "")
        /\ (ErrCount \in Elems(errors)) <=> (glyph_count(font) = 0)
        /\ (ErrBpp \in Elems(errors)) <=> (font.head.bpp # font.glyf.bpp)
        /\ (ErrCompression \in Elems(errors))
               <=> (font.head.compression_id # font.glyf.compression)
        /\ (font.head.bpp = 4 /\ font.glyf.bpp = 2) =>
               (errors # <<>> /\ ErrBpp \in Elems(errors))
        /\ Consistent(font) => errors = <<>>

\* C6: validate() reports a violation whenever the glyph ids, in table
\* order, are not strictly ascending, two glyphs with the same id included.
C6_NotStrictlyAscendingReported ==
    (fpc = "validated" /\ ~StrictlyAscending(glyph_ids(font)))
        => ErrUnsorted \in Elems(errors)

ZeroArea(g) == g.box_w = 0 \/ g.box_h = 0

\* C7: a glyph with zero area is valid in each compression mode: emitting
\* a valid font that contains one (at a depth the packer and the codec both
\* support, and with other glyphs that encode without error) succeeds, and
\* the glyph contributes no bytes to glyph_bitmap.
C7_ZeroAreaGlyphEmitted ==
    (/\ fpc = "written"
     /\ validate(font) = <<>>
     /\ font.head.bpp \in {1, 2, 4}
     /\ \E k \in 1..glyph_count(font) :
            /\ font.glyf.glyphs[k].glyph_id # 0
            /\ ZeroArea(font.glyf.glyphs[k])
     /\ \A k \in 1..glyph_count(font) :
            (font.glyf.glyphs[k].glyph_id # 0
             /\ ~ZeroArea(font.glyf.glyphs[k]))
                => glyph_bitmap_data(font, font.glyf.glyphs[k]).err = "")
    => /\ wres = "ok"
       /\ file.exists
       /\ \A k \in 1..glyph_count(font) :
              ZeroArea(font.glyf.glyphs[k]) =>
                  \A e \in 1..Len(file.text.glyph_bitmap) :
                      file.text.glyph_bitmap[e].unicode
                          # font.glyf.glyphs[k].unicode

(***************************************************************************)
(* glyph_renderer.py: GlyphRenderer                                        *)
(*                                                                         *)
(* What FreeType rasterizes is an input: for a codepoint it fails (the     *)
(* renderer returns None) or yields a width, a height and an 8-bit buffer. *)
(***************************************************************************)
\* GlyphRenderer.set_bpp raises unless bpp is 1, 2, 3 or 4
set_bpp_raises(bpp) == bpp \notin {1, 2, 3, 4}

\* _convert_to_1bit, _convert_to_2bit, _convert_to_3bit, _convert_to_4bit
\* a quantizer that rounds to the nearest level instead of truncating
convert_sample_rounding(v, target_bpp) ==
    IF target_bpp \in 1..4
    THEN (v * ((2 ^ target_bpp) - 1) + 127) \div 255
    ELSE v

convert_sample(v, target_bpp) ==
    IF target_bpp = 1 THEN (IF v >= 128 THEN 1 ELSE 0)
    ELSE IF target_bpp = 2 THEN v \div 64
    ELSE IF target_bpp = 3 THEN v \div 32
    ELSE IF target_bpp = 4 THEN v \div 16
    ELSE v

convert_bit_depth(bitmap, target_bpp) ==
    [bitmap EXCEPT
        !.d = [i \in 1..Len(bitmap.d) |->
                  convert_sample(bitmap.d[i], target_bpp)]]

\* render_glyph on a loaded glyph slot: the renderer's GlyphData
render_glyph(char_code, ft, current_bpp) ==
    [char_code |-> char_code, width |-> ft.w, height |-> ft.h,
     bitmap |-> IF ft.w > 0 /\ ft.h > 0
                THEN convert_bit_depth(ft, current_bpp)
                ELSE ZeroAreaBitmap]

(***************************************************************************)
(* simple_converter.py: SimpleFontConverter.convert_font                   *)
(***************************************************************************)
compression_type(compression) == IF compression = "rle" THEN RLE ELSE NONE

\* the reserved glyph with id 0
reserved_glyph ==
    [glyph_id |-> 0, unicode |-> 0, bitmap |-> [h |-> 1, w |-> 1, d |-> <<0>>],
     bitmap_index |-> 0, box_w |-> 0, box_h |-> 0]

\* by how much the loop advances bitmap_offset after a glyph
bitmap_size_bytes(width, height, bpp) ==
    IF bpp = 1 THEN ((width * height) + 7) \div 8
    ELSE IF bpp = 2 THEN ((width * height) + 3) \div 4
    ELSE IF bpp = 4 THEN ((width * height) + 1) \div 2
    ELSE width * height

RECURSIVE Sorted(_)
Sorted(S) ==
    IF S = {} THEN <<>>
    ELSE LET m == CHOOSE x \in S : \A y \in S : x <= y
         IN <<m>> \o Sorted(S \ {m})

\* a run taken to reach the last codepoint, gaps included
run_length_to_last(D, c) ==
    (CHOOSE e \in D : \A x \in D : x <= e) - c + 1

\* the length of the run of consecutive codepoints that starts at c
run_length(D, c) ==
    (CHOOSE e \in D : e >= c /\ (c..e) \subseteq D /\ (e + 1) \notin D) - c + 1

\* "5. build Cmap": one FORMAT0_TINY subtable per run of consecutive
\* codepoints of char_to_glyph_id, in ascending order
build_cmap(c2g) ==
    LET D == DOMAIN c2g
        starts == Sorted({c \in D : (c - 1) \notin D})
    IN [k \in 1..Len(starts) |->
           [range_start |-> starts[k],
            range_length |-> run_length(D, starts[k]),
            glyph_id_start |-> c2g[starts[k]],
            format |-> FORMAT0_TINY,
            unicode_list |-> <<>>, glyph_id_ofs_list |-> <<>>]]

(***************************************************************************)
(* font_converter.py: ConversionParams, FontConverter.set_params           *)
(***************************************************************************)
\* ConversionParams.__post_init__ raises ValueError
post_init_raises(p) ==
    \/ p.bpp \notin {1, 2, 4, 8}
    \/ p.compression \notin {"none", "rle"}
    \/ p.lvgl_version \notin {7, 8, 9}

\* setattr(self.params, key, value)
setattr(p, key, value) == [p EXCEPT ![key] = value]

(***************************************************************************)
(* Conversion harness: one convert_font job, or one FontConverter that is  *)
(* configured and then run                                                 *)
(***************************************************************************)
Codepoints == {48, 49, 51}

\* longer requests: the digits 0x30..0x39, the letters 0x41..0x45, and
\* three scattered letters
Digits == 48..57
Letters == 65..69
Scattered == {65, 67, 71}
CodepointSets ==
    {S \in SUBSET Codepoints : Cardinality(S) <= MaxChars}
    \cup {Digits, Letters, Scattered}

\* the codepoints for which the font file may hold any kind of glyph or
\* none; for every other codepoint it holds an ordinary glyph
VariedCodepoints == Codepoints \cup {65, 67}
ConfigBpps == {1, 2, 3, 4, 5, 8}
ConfigCompressions == {"none", "rle", "lz4"}
ConfigVersions == {6, 7, 8, 9}

\* what FreeType may produce for a codepoint: no glyph, a glyph without
\* area, or an 8-bit grayscale bitmap
NoGlyph == [ok |-> FALSE, h |-> 0, w |-> 0, d |-> <<>>]
FtBitmaps ==
    {[ok |-> TRUE, h |-> 0, w |-> 0, d |-> <<>>],
     [ok |-> TRUE, h |-> 2, w |-> 2, d |-> <<255, 255, 255, 255>>],
     [ok |-> TRUE, h |-> 1, w |-> 3, d |-> <<0, 128, 255>>]}
PlainGlyph == [ok |-> TRUE, h |-> 2, w |-> 2, d |-> <<255, 255, 255, 255>>]
FtOutputs(codepoint) ==
    IF codepoint \in VariedCodepoints THEN FtBitmaps \cup {NoGlyph}
    ELSE {PlainGlyph}

JobInit ==
    /\ cfg \in [bpp : ConfigBpps, compression : ConfigCompressions,
                lvgl_version : ConfigVersions,
                codepoints : CodepointSets,
                loadable : BOOLEAN]
    /\ cpos = "start"
    /\ todo = <<>>
    /\ glyf = EmptyGlyf
    /\ bitmap_offset = 0
    /\ glyph_id = 0
    /\ char_to_glyph_id = <<>>
    /\ rendered = 0
    /\ result = ""
    /\ failed_at = ""
    /\ lvgl_font = EmptyFont
    /\ output \in {NoFile, OldFile}

ConvertInit ==
    /\ CodecIdle
    /\ FontIdle
    /\ UnitIdle
    /\ \/ JobInit /\ FcIdle
       \/ JobIdle /\ FcIdle

\* convert_font returns False from stage st
Fail(st) ==
    /\ result' = "False"
    /\ failed_at' = st
    /\ cpos' = "done"

\* convert_font up to the rendering loop: load the font, collect the
\* codepoints, configure the renderer, create the glyph table
ConvertStart ==
    /\ cpos = "start"
    /\ IF ~cfg.loadable
       THEN Fail("load_font")
            /\ UNCHANGED <<todo, glyf, bitmap_offset, glyph_id>>
       ELSE IF cfg.codepoints = {}
       THEN Fail("collect_codepoints")
            /\ UNCHANGED <<todo, glyf, bitmap_offset, glyph_id>>
       ELSE IF set_bpp_raises(cfg.bpp)
       THEN Fail("set_bpp")
            /\ UNCHANGED <<todo, glyf, bitmap_offset, glyph_id>>
       ELSE /\ glyf' = [glyphs |-> <<reserved_glyph>>, bpp |-> cfg.bpp,
                        compression |-> compression_type(cfg.compression)]
            /\ glyph_id' = 1
            /\ bitmap_offset' = 0
            /\ todo' = Sorted(cfg.codepoints)
            /\ cpos' = "render"
            /\ UNCHANGED <<result, failed_at>>
    /\ UNCHANGED <<cfg, char_to_glyph_id, rendered, lvgl_font, output>>
    /\ UNCHANGED <<codecVars, fontVars, fcVars, unitVars>>

\* a rendering loop in which a codepoint that fails to render uses up an id
RenderGlyphBurningIds ==
    /\ cpos = "render"
    /\ todo # <<>>
    /\ \E ft \in FtOutputs(Head(todo)) :
          IF ~ft.ok
          THEN glyph_id' = glyph_id + 1
               /\ UNCHANGED <<glyf, bitmap_offset, char_to_glyph_id>>
          ELSE /\ glyf' = [glyf EXCEPT !.glyphs =
                     Append(@, [glyph_id |-> glyph_id,
                                unicode |-> Head(todo),
                                bitmap |-> render_glyph(Head(todo), ft,
                                                        cfg.bpp).bitmap,
                                bitmap_index |-> bitmap_offset,
                                box_w |-> ft.w, box_h |-> ft.h])]
               /\ char_to_glyph_id' =
                     [c \in DOMAIN char_to_glyph_id \cup {Head(todo)} |->
                         IF c = Head(todo) THEN glyph_id
                         ELSE char_to_glyph_id[c]]
               /\ bitmap_offset' = bitmap_offset
                     + bitmap_size_bytes(ft.w, ft.h, cfg.bpp)
               /\ glyph_id' = glyph_id + 1
    /\ rendered' = rendered + 1
    /\ todo' = Tail(todo)
    /\ UNCHANGED <<cfg, cpos, result, failed_at, lvgl_font, output>>
    /\ UNCHANGED <<codecVars, fontVars, fcVars, unitVars>>

\* one iteration of the rendering loop
RenderGlyph ==
    /\ cpos = "render"
    /\ todo # <<>>
    /\ \E ft \in FtOutputs(Head(todo)) :
          LET codepoint == Head(todo)
              rendered_glyph == render_glyph(codepoint, ft, cfg.bpp)
          IN IF ~ft.ok
             THEN UNCHANGED <<glyf, bitmap_offset, glyph_id, char_to_glyph_id>>
             ELSE /\ glyf' = [glyf EXCEPT !.glyphs =
                        Append(@, [glyph_id |-> glyph_id,
                                   unicode |-> codepoint,
                                   bitmap |-> rendered_glyph.bitmap,
                                   bitmap_index |-> bitmap_offset,
                                   box_w |-> rendered_glyph.width,
                                   box_h |-> rendered_glyph.height])]
                  /\ char_to_glyph_id' =
                        [c \in DOMAIN char_to_glyph_id \cup {codepoint} |->
                            IF c = codepoint THEN glyph_id
                            ELSE char_to_glyph_id[c]]
                  /\ bitmap_offset' = bitmap_offset
                        + bitmap_size_bytes(rendered_glyph.width,
                                            rendered_glyph.height, cfg.bpp)
                  /\ glyph_id' = glyph_id + 1
    /\ rendered' = rendered + 1
    /\ todo' = Tail(todo)
    /\ UNCHANGED <<cfg, cpos, result, failed_at, lvgl_font, output>>
    /\ UNCHANGED <<codecVars, fontVars, fcVars, unitVars>>

\* the font convert_font assembles after the loop
assembled_font ==
    [name |-> "font",
     head |-> [bpp |-> cfg.bpp,
               compression_id |-> compression_type(cfg.compression)],
     cmap |-> build_cmap(char_to_glyph_id),
     glyf |-> glyf]

\* convert_font after the loop: build cmap and head, assemble the font,
\* LVGLWriter().write(lvgl_font, output_file)
ConvertFinish ==
    /\ cpos = "render"
    /\ todo = <<>>
    /\ IF Len(glyf.glyphs) <= 1
       THEN Fail("no_glyphs") /\ UNCHANGED <<lvgl_font, output>>
       ELSE /\ lvgl_font' = assembled_font
            /\ output' = write_outcome(assembled_font, output).file
            /\ IF write_outcome(assembled_font, output).res = "ok"
               THEN result' = "True" /\ failed_at' = "" /\ cpos' = "done"
               ELSE Fail("write")
    /\ UNCHANGED <<cfg, todo, glyf, bitmap_offset, glyph_id,
                   char_to_glyph_id, rendered>>
    /\ UNCHANGED <<codecVars, fontVars, fcVars, unitVars>>

\* FontConverter.set_params(key=value)
SetParams ==
    /\ cpos = "idle"
    /\ used = <<>>
    /\ set_calls < MaxSetCalls
    /\ \E kv \in ({"bpp"} \X {2, 3, 8})
                 \cup ({"compression"} \X {"rle", "lz4"})
                 \cup ({"lvgl_version"} \X {6, 8}) :
          /\ params' = setattr(params, kv[1], kv[2])
          /\ set_res' = IF post_init_raises(setattr(params, kv[1], kv[2]))
                        THEN "ValueError" ELSE "ok"
    /\ set_calls' = set_calls + 1
    /\ UNCHANGED <<used, jobVars, codecVars, fontVars,
                   unitVars>>

\* FontConverter.convert(output_path): it runs with self.params as they are
FcConvert ==
    /\ cpos = "idle"
    /\ used = <<>>
    /\ used' = params
    /\ UNCHANGED <<params, set_calls, set_res, jobVars, codecVars, fontVars,
                   unitVars>>

ConvertNext ==
    ConvertStart \/ RenderGlyph \/ ConvertFinish \/ SetParams \/ FcConvert

SpecConvert == ConvertInit /\ [][ConvertNext]_vars

(***************************************************************************)
(* Properties of the conversion (checked under SpecConvert)                *)
(***************************************************************************)
\* the number of bytes the written glyph_bitmap array holds for a codepoint
EmittedBytes(text, unicode) ==
    IF \E e \in 1..Len(text.glyph_bitmap) :
           text.glyph_bitmap[e].unicode = unicode
    THEN Len(text.glyph_bitmap[
                 CHOOSE e \in 1..Len(text.glyph_bitmap) :
                     text.glyph_bitmap[e].unicode = unicode].data)
    ELSE 0

\* the bytes emitted for the glyphs before the k-th of the table
RECURSIVE EmittedBefore(_, _, _)
EmittedBefore(text, glyphs, k) ==
    IF k <= 1 THEN 0
    ELSE EmittedBefore(text, glyphs, k - 1)
         + (IF glyphs[k - 1].glyph_id = 0 THEN 0
            ELSE EmittedBytes(text, glyphs[k - 1].unicode))

\* C2: in the font built by convert_font and emitted by LVGLWriter, every
\* glyph's bitmap_index equals the number of bytes emitted into
\* glyph_bitmap for the glyphs that precede it, in every compression mode.
C2_BitmapIndexIsByteOffset ==
    (cpos = "done" /\ result = "True") =>
        \A k \in 1..Len(lvgl_font.glyf.glyphs) :
            lvgl_font.glyf.glyphs[k].glyph_id # 0 =>
                lvgl_font.glyf.glyphs[k].bitmap_index
                    = EmittedBefore(output.text, lvgl_font.glyf.glyphs, k)

\* the values the configuration surface offers
SupportedConfig(c) ==
    /\ c.bpp \in {1, 2, 4, 8}
    /\ c.compression \in {"none", "rle"}
    /\ c.lvgl_version \in {7, 8, 9}

\* C9: configuration errors are rejected before any encoding begins.  A
\* convert_font call with an unsupported bpp, compression mode or LVGL
\* major version ends in failure without a glyph having been rendered, and
\* a FontConverter never runs convert with a value set_params rejected.
C9_ConfigErrorsRejectedFirst ==
    /\ (cpos = "done" /\ ~SupportedConfig(cfg)) =>
           (result = "False" /\ rendered = 0)
    /\ used # <<>> => SupportedConfig(used)

\* C10: each depth of the configuration surface, 1, 2, 4 and 8, is
\* accepted with compression none: neither the renderer's depth setting
\* nor the packer and writer fail the conversion.
C10_EveryDepthAccepted ==
    (/\ cpos = "done"
     /\ cfg.bpp \in {1, 2, 4, 8}
     /\ cfg.compression = "none"
     /\ cfg.lvgl_version \in {7, 8, 9})
    => failed_at \notin {"set_bpp", "write"}

\* the codepoints a subtable's range covers
Covered(st) == st.range_start..(st.range_start + st.range_length - 1)

C12_ScatteredGivesSparse ==
    (cpos = "done" /\ lvgl_font # EmptyFont
     /\ DOMAIN char_to_glyph_id = Scattered) =>
        \E k \in 1..Len(lvgl_font.cmap) :
            /\ lvgl_font.cmap[k].format \in {SPARSE_TINY, SPARSE_FULL}
            /\ Elems(lvgl_font.cmap[k].unicode_list) = Scattered

\* the digits were requested at 4 bpp without compression and all rendered
DigitsConverted ==
    /\ cpos = "done"
    /\ cfg.bpp = 4
    /\ cfg.compression = "none"
    /\ cfg.codepoints = Digits
    /\ DOMAIN char_to_glyph_id = Digits

\* C13 (as stated): the emitted glyph descriptor array has exactly 10
\* entries and the cmap exactly one subtable with range_length 10.
C13_TenDescriptors ==
    DigitsConverted =>
        /\ result = "True"
        /\ Len(output.text.glyph_dsc) = 10
        /\ Len(output.text.cmaps) = 1
        /\ output.text.cmaps[1].range_length = 10

\* C13 (amended): the conversion succeeds and the emitted glyph descriptor
\* array has 11 entries, the reserved descriptor of glyph id 0 followed by
\* one per digit, and the cmap exactly one subtable with range_length 10.
C13_ReservedPlusTenDescriptors ==
    DigitsConverted =>
        /\ result = "True"
        /\ output.exists
        /\ Len(output.text.glyph_dsc) = 11
        /\ output.text.glyph_dsc[1] = ReservedDsc
        /\ Len(output.text.cmaps) = 1
        /\ output.text.cmaps[1].range_start = 48
        /\ output.text.cmaps[1].range_length = 10
        /\ output.text.cmaps[1].glyph_id_start = 1

C13_Witness == DigitsConverted /\ result = "True" /\ output.exists

\* C14: in the glyph table convert_font builds, the first glyph is the
\* reserved one with id 0, the k-th glyph has id k - 1 (so ids are unique,
\* ascending and without gap), codepoints ascend strictly with the ids, and
\* a codepoint whose rendering failed has consumed no id.
C14_GlyphIdsConsecutive ==
    cpos \in {"render", "done"} /\ glyf # EmptyGlyf =>
        /\ glyf.glyphs[1] = reserved_glyph
        /\ \A k \in 1..Len(glyf.glyphs) : glyf.glyphs[k].glyph_id = k - 1
        /\ \A k \in 2..(Len(glyf.glyphs) - 1) :
               glyf.glyphs[k].unicode < glyf.glyphs[k + 1].unicode
        /\ \A k \in 2..Len(glyf.glyphs) :
               char_to_glyph_id[glyf.glyphs[k].unicode] = k - 1
        /\ glyph_id = Len(glyf.glyphs)
        /\ Cardinality(DOMAIN char_to_glyph_id) = Len(glyf.glyphs) - 1
        /\ Len(glyf.glyphs) - 1 <= rendered

\* 0x31 failed to render between 0x30 and 0x33, which got ids 1 and 2
C14_Witness ==
    /\ cpos = "done"
    /\ rendered = 3
    /\ DOMAIN char_to_glyph_id = {48, 51}
    /\ char_to_glyph_id[51] = 2
    /\ Len(glyf.glyphs) = 3

(***************************************************************************)
(* Quantizer and pre-filter harness: one rasterized array through          *)
(* _convert_bit_depth and then apply_xor_prefilter                         *)
(***************************************************************************)
MaxRows == 2                    \* rows of a bitmap handed to the pre-filter

\* the 8-bit samples of the multi-row bitmaps: one per quarter of the range
FilterSamples == {0, 100, 160, 255}

\* every 8-bit sample next to its successor, as a one-row bitmap
SamplePairs ==
    {[h |-> 1, w |-> 2, d |-> <<s, IF s = 255 THEN 255 ELSE s + 1>>] :
        s \in 0..255}

\* bitmaps of up to MaxRows rows and one or two columns
SmallBitmaps ==
    UNION {UNION {{[h |-> h, w |-> w, d |-> d] :
                      d \in [1..(h * w) -> FilterSamples]} :
                  w \in 1..2} :
           h \in 0..MaxRows}

\* arrays that are not two-dimensional: flat ones and stacks of bitmaps
OtherArrays ==
    {[n |-> 2, d |-> d] : d \in [1..2 -> FilterSamples]}
    \cup {[p |-> 1, h |-> 1, w |-> 2, d |-> d] : d \in [1..2 -> FilterSamples]}

PixelsInit ==
    /\ gray \in SamplePairs \cup SmallBitmaps \cup OtherArrays
    /\ qbpp \in 1..4
    /\ ppc = "input"
    /\ quantized = [h |-> 0, w |-> 0, d |-> <<>>]
    /\ xored = Ok(<<>>)
    /\ BitsIdle /\ EmitIdle /\ ProjectIdle
    /\ CodecIdle /\ FontIdle /\ ConvertIdle /\ AppIdle

\* bitmap_data = self._convert_bit_depth(bitmap_data, self._current_bpp)
Quantize ==
    /\ ppc = "input"
    /\ quantized' = convert_bit_depth(gray, qbpp)
    /\ ppc' = "quantized"
    /\ UNCHANGED <<gray, qbpp, xored>>
    /\ UNCHANGED <<appVars, codecVars, fontVars, convVars, bitsVars, emitVars,
                   projVars>>

\* filtered = apply_xor_prefilter(pixels)
XorFilter ==
    /\ ppc = "quantized"
    /\ xored' = apply_xor_prefilter(quantized)
    /\ ppc' = "filtered"
    /\ UNCHANGED <<gray, qbpp, quantized>>
    /\ UNCHANGED <<appVars, codecVars, fontVars, convVars, bitsVars, emitVars,
                   projVars>>

PixelsNext == Quantize \/ XorFilter

SpecPixels == PixelsInit /\ [][PixelsNext]_vars

\* C15: for every 8-bit sample s and every depth N in 1..4 the quantizer
\* returns floor(s * 2^N / 256), which is s shifted right by 8 - N bits;
\* the result lies in 0..2^N - 1 and the mapping is monotonic (a larger
\* sample never gets a smaller value).
C15_QuantizerIsFloorScaling ==
    (ppc # "input" /\ ndim(gray) = 2) =>
        /\ quantized.h = gray.h /\ quantized.w = gray.w
        /\ Len(quantized.d) = Len(gray.d)
        /\ \A i \in 1..Len(gray.d) :
               /\ quantized.d[i] = (gray.d[i] * (2 ^ qbpp)) \div 256
               /\ quantized.d[i] = gray.d[i] \div (2 ^ (8 - qbpp))
               /\ quantized.d[i] \in 0..((2 ^ qbpp) - 1)
        /\ \A i, j \in 1..Len(gray.d) :
               gray.d[i] <= gray.d[j] => quantized.d[i] <= quantized.d[j]

\* the samples 127 and 128 quantized to one bit: the step from 0 to 1
C15_Witness ==
    /\ ppc = "quantized"
    /\ gray.d = <<127, 128>>
    /\ qbpp = 1
    /\ quantized.d = <<0, 1>>

RECURSIVE Unfilter(_, _, _)
\* undoing the pre-filter on a flat array of rows of width w: every row
\* from the second on is XORed with the restored row above it
Unfilter(flat, w, i) ==
    IF i > Len(flat) THEN flat
    ELSE Unfilter([flat EXCEPT ![i] = IF i <= w THEN flat[i]
                                      ELSE Xor(flat[i], flat[i - w])],
                  w, i + 1)

MaxWrites == 3                  \* write_bits calls made on the stream

\* (value, num_bits): single bits, widths that straddle bytes, values wider
\* than num_bits, the widest accepted width, and two rejected widths
WriteArgs ==
    {<<1, 1>>, <<0, 1>>, <<5, 3>>, <<13, 3>>, <<255, 8>>, <<300, 9>>,
     <<43981, 16>>, <<2147483647, 32>>, <<1, 0>>, <<1, 33>>}

\* the low n bits of a value, most significant first
LowBitsMsbFirst(value, n) ==
    [i \in 1..n |-> IF n - i >= 31 THEN 0 ELSE (value \div (2 ^ (n - i))) % 2]

BitsInit ==
    /\ stream = BitStreamInit
    /\ written = <<>>
    /\ nwrites = 0
    /\ last_op = "new"
    /\ flushed = <<>>
    /\ flushed_bits = <<>>
    /\ PixelsIdle /\ EmitIdle /\ ProjectIdle
    /\ CodecIdle /\ FontIdle /\ ConvertIdle /\ AppIdle

\* bs.write_bits(value, num_bits)
BsWrite ==
    /\ nwrites < MaxWrites
    /\ \E a \in WriteArgs :
          /\ stream' = write_bits(stream, a[1], a[2])
          /\ IF write_bits_raises(a[2])
             THEN last_op' = "raised" /\ UNCHANGED written
             ELSE /\ last_op' = "write"
                  /\ written' = written \o LowBitsMsbFirst(a[1], a[2])
    /\ nwrites' = nwrites + 1
    /\ UNCHANGED <<flushed, flushed_bits>>
    /\ UNCHANGED <<appVars, codecVars, fontVars, convVars, pixelVars, emitVars,
                   projVars>>

\* data = bs.flush(); two flushes in a row are enough to see the reset
BsFlush ==
    /\ last_op # "flush" \/ flushed # <<>>
    /\ flushed' = flush(stream)
    /\ flushed_bits' = written
    /\ stream' = flush_reset(stream)
    /\ written' = <<>>
    /\ last_op' = "flush"
    /\ UNCHANGED nwrites
    /\ UNCHANGED <<appVars, codecVars, fontVars, convVars, pixelVars, emitVars,
                   projVars>>

BitsNext == BsWrite \/ BsFlush

SpecBitStream == BitsInit /\ [][BitsNext]_vars

\* bytes hold exactly the given bits, MSB-first, followed by zero bits up
\* to the next byte boundary
HoldsBits(bytes, bits) ==
    /\ Len(bytes) = (Len(bits) + 7) \div 8
    /\ \A pos \in 0..((8 * Len(bytes)) - 1) :
           BitAt(bytes, pos) = IF pos < Len(bits) THEN bits[pos + 1] ELSE 0
    /\ \A k \in 1..Len(bytes) : bytes[k] \in 0..255

\* C20: after any sequence of write_bits calls with 1 <= n <= 32 the stream
\* holds the low n bits of each value, MSB-first, contiguously across byte
\* boundaries; byte_count is ceil(bits written / 8); flush returns exactly
\* that many bytes with the unused low bits of the last byte zero, and
\* resets the stream so that a following flush returns no bytes.
C20_BitStreamContiguous ==
    /\ byte_count(stream) = (Len(written) + 7) \div 8
    /\ HoldsBits(flush(stream), written)
    /\ last_op = "flush" =>
           /\ HoldsBits(flushed, flushed_bits)
           /\ byte_count(stream) = 0
           /\ flush(stream) = <<>>
           /\ stream = BitStreamInit

\* 3 bits, then 9 bits, then a flush: the second value straddles the byte
\* boundary, 101 1_0010_1100 padded to 0xB2 0xC0
C20_Witness ==
    /\ last_op = "flush"
    /\ nwrites = 2
    /\ flushed_bits = <<1, 0, 1, 1, 0, 0, 1, 0, 1, 1, 0, 0>>
    /\ flushed = <<178, 192>>

\* no two adjacent values of the stream are equal
NoAdjacentEqual(flat) == \A i \in 1..(Len(flat) - 1) : flat[i] # flat[i + 1]

\* C17: for a pixel sequence of length n in which no two adjacent values
\* are equal, compress_rle emits exactly bpp bits per pixel and no run
\* marker: the output is the plain MSB-first packing of the sequence,
\* ceil(n * bpp / 8) bytes with zero padding in the last one.
C17_NoRepeatsIsPlainPacking ==
    (cpc \in {"compressed", "decoded"} /\ cbpp \in 1..4
     /\ NoAdjacentEqual(px)) =>
        /\ rleOut.err = ""
        /\ Len(rleOut.out) = ((Len(px) * cbpp) + 7) \div 8
        /\ \A i \in 0..(Len(px) - 1) : \A k \in 0..(cbpp - 1) :
               BitAt(rleOut.out, (i * cbpp) + k)
                   = (px[i + 1] \div (2 ^ (cbpp - 1 - k))) % 2
        /\ \A pos \in (Len(px) * cbpp)..((8 * Len(rleOut.out)) - 1) :
               BitAt(rleOut.out, pos) = 0
        /\ cbpp \in {1, 2, 4} =>
               rleOut.out = flatten_bitmap(AsBitmap(px), cbpp).out

\* nine 3-bit pixels 7, 0, 7, ...: 27 bits in four bytes
C17_Witness ==
    /\ cpc = "compressed"
    /\ cbpp = 3
    /\ px = <<7, 0, 7, 0, 7, 0, 7, 0, 7>>
    /\ rleOut = Ok(<<227, 142, 56, 224>>)

(***************************************************************************)
(* Emission harness: generate_c_code called repeatedly on one font         *)
(***************************************************************************)
MaxEmits == 2                   \* calls of generate_c_code on the font

\* the fonts emitted: the text depends on neither the name nor the glyph
\* table's copy of the compression setting
EmitFonts ==
    {f \in Fonts : /\ f.name = "font"
                   /\ f.head.compression_id = f.glyf.compression}

EmitInit ==
    /\ efont \in EmitFonts
    /\ efont0 = efont
    /\ emitted = <<>>
    /\ PixelsIdle /\ BitsIdle /\ ProjectIdle
    /\ CodecIdle /\ FontIdle /\ ConvertIdle /\ AppIdle

\* c_code = writer.generate_c_code(font): the method and the section
\* generators it calls only read the font and the writer's two settings;
\* bitmaps are flattened, reshaped and filtered into new arrays
Emit ==
    /\ Len(emitted) < MaxEmits
    /\ emitted' = Append(emitted, generate_c_code(efont))
    /\ UNCHANGED <<efont, efont0>>
    /\ UNCHANGED <<appVars, codecVars, fontVars, convVars, pixelVars, bitsVars,
                   projVars>>

EmitNext == Emit

SpecEmit == EmitInit /\ [][EmitNext]_vars

MaxFonts == 2                   \* font sources of the saved project

FontSources ==
    {[path |-> <<"DejaVuSans", ".ttf">>, ranges |-> <<"0x30-0x39">>,
      symbols |-> sy, display_name |-> dn] :
        sy \in {"", "abc"}, dn \in {"", "Numbers"}}

\* the default configuration and one with fields changed
Configs ==
    {ConvertConfig,
     [ConvertConfig EXCEPT !.font_size = 24, !.bpp = 2,
                           !.compression = "none",
                           !.output_name = "my_awesome_font", !.lcd = TRUE]}

\* what the disk may hold beforehand under the name a.lvproj: nothing, text
\* that is not JSON, an older project, or JSON with a font entry that has
\* no path
OlderContents ==
    {Missing, Garbage, json_dump(Project_to_dict(NewProject)),
     json_dump([version |-> VERSION,
                fonts |-> <<[symbols |-> "abc"]>>])}

ProjectInit ==
    /\ saved_project \in
           [file_path : {NoPath}, fonts : SeqsUpTo(FontSources, MaxFonts),
            config : Configs, modified : {FALSE}]
    /\ fresh_project = NewProject
    /\ disk \in {[EmptyDisk EXCEPT ![<<"a", ".lvproj">>] = c] :
                    c \in OlderContents}
    /\ save_path = NoPath
    /\ save_res = ""
    /\ load_path = NoPath
    /\ load_res = ""
    /\ PixelsIdle /\ BitsIdle /\ EmitIdle
    /\ CodecIdle /\ FontIdle /\ ConvertIdle /\ AppIdle

\* project.mark_modified(), after an edit made before the first save
MarkModified ==
    /\ save_res = ""
    /\ ~saved_project.modified
    /\ saved_project' = mark_modified(saved_project)
    /\ UNCHANGED <<fresh_project, disk, save_path, save_res, load_path,
                   load_res>>
    /\ UNCHANGED <<appVars, codecVars, fontVars, convVars, pixelVars, bitsVars,
                   emitVars>>

\* success = project.save(file_path), before the other project loads
Save ==
    /\ load_res = ""
    /\ \E file_path \in Paths :
          /\ save_path' = file_path
          /\ save_res' = save(saved_project, file_path, disk).res
          /\ saved_project' = save(saved_project, file_path, disk).self
          /\ disk' = save(saved_project, file_path, disk).files
    /\ UNCHANGED <<fresh_project, load_path, load_res>>
    /\ UNCHANGED <<appVars, codecVars, fontVars, convVars, pixelVars, bitsVars,
                   emitVars>>

\* project2 = Project(); success = project2.load(file_path)
Load ==
    /\ load_res = ""
    /\ \E file_path \in Paths :
          /\ load_path' = file_path
          /\ load_res' = load(fresh_project, file_path, disk).res
          /\ fresh_project' = load(fresh_project, file_path, disk).self
    /\ UNCHANGED <<saved_project, disk, save_path, save_res>>
    /\ UNCHANGED <<appVars, codecVars, fontVars, convVars, pixelVars, bitsVars,
                   emitVars>>

ProjectNext == MarkModified \/ Save \/ Load

SpecProject == ProjectInit /\ [][ProjectNext]_vars

\* C19: after save(file_path) returned True, load(file_path) with the same
\* path on a fresh Project returns True and reproduces the saved fonts
\* (path, ranges, symbols and display_name of each, in order) and the
\* saved configuration, and neither project is modified.
C19_SaveLoadRoundTrip ==
    (save_res = "True" /\ load_res # "" /\ load_path = save_path) =>
        /\ load_res = "True"
        /\ fresh_project.fonts = saved_project.fonts
        /\ fresh_project.config = saved_project.config
        /\ ~fresh_project.modified
        /\ ~saved_project.modified

(***************************************************************************)
(* The token grammar of compress_rle                                       *)
(***************************************************************************)
RECURSIVE EncoderSteps(_, _)
\* the iterations of compress_rle's loop from an offset on: where each one
\* starts, the pixel it reads and the number of pixels it consumes
EncoderSteps(pixels, offset) ==
    IF offset >= Len(pixels) THEN <<>>
    ELSE <<[offset |-> offset, pixel |-> pixels[offset + 1],
            same |-> rle_capped(pixels, offset)]>>
         \o EncoderSteps(pixels, offset + rle_capped(pixels, offset))

\* the bits a token of `same` pixels takes in the output
TokenLen(same, bpp) ==
    IF same <= 1 THEN same * bpp
    ELSE IF same <= 11 THEN (2 * bpp) + (same - 1)
    ELSE (2 * bpp) + 11 + 6

RECURSIVE BitStart(_, _, _)
\* the bit at which the k-th token of a step list starts
BitStart(steps, k, bpp) ==
    IF k <= 1 THEN 0
    ELSE BitStart(steps, k - 1, bpp) + TokenLen(steps[k - 1].same, bpp)

\* n bits of a byte sequence from bit `start` on
BitsFrom(bytes, start, n) == [i \in 1..n |-> BitAt(bytes, start + i - 1)]

\* a value as num_bits bits, most significant first
Literal(value, num_bits) ==
    [i \in 1..num_bits |-> (value \div (2 ^ (num_bits - i))) % 2]

\* the pixels from offset on form a maximal run of exactly len values
MaximalRun(pixels, offset, len) ==
    /\ offset + len <= Len(pixels)
    /\ \A i \in 1..len : pixels[offset + i] = pixels[offset + 1]
    /\ offset = 0 \/ pixels[offset] # pixels[offset + 1]
    /\ offset + len = Len(pixels)
           \/ pixels[offset + len + 1] # pixels[offset + 1]

Encoded == cpc \in {"compressed", "decoded"} /\ cbpp \in 1..4

\* C21: a maximal run of L identical values, 2 <= L <= 11, is written as
\* one N-bit literal, one more N-bit literal of the same value as the run
\* tag, and L - 1 one-bit flags of which the first L - 2 are 1 and the last
\* is 0.
C21_ShortRunToken ==
    Encoded =>
        LET steps == EncoderSteps(px, 0)
        IN \A k \in 1..Len(steps) :
               (steps[k].same \in 2..11
                /\ MaximalRun(px, steps[k].offset, steps[k].same)) =>
                   BitsFrom(rleOut.out, BitStart(steps, k, cbpp),
                            (2 * cbpp) + steps[k].same - 1)
                       = Literal(steps[k].pixel, cbpp)
                         \o Literal(steps[k].pixel, cbpp)
                         \o Repeat(1, steps[k].same - 2)
                         \o <<0>>

\* five 2-bit pixels of value 3: 11 11 111 0
C21_Witness ==
    /\ cpc = "compressed"
    /\ cbpp = 2
    /\ px = <<3, 3, 3, 3, 3>>
    /\ rleOut = Ok(<<254>>)

\* C22 (as stated): a run of at least 12 pixels is written as the two
\* N-bit literals, exactly 10 one bits, and then the 6-bit counter holding
\* the repetitions beyond the 10 collapsed ones.
C22_TenOnesThenCounter ==
    Encoded =>
        LET steps == EncoderSteps(px, 0)
        IN \A k \in 1..Len(steps) :
               steps[k].same >= 12 =>
                   BitsFrom(rleOut.out, BitStart(steps, k, cbpp),
                            (2 * cbpp) + 10 + 6)
                       = Literal(steps[k].pixel, cbpp)
                         \o Literal(steps[k].pixel, cbpp)
                         \o Repeat(1, 10)
                         \o Literal(steps[k].same - 12, 6)

\* C22 (amended): a run of at least 12 pixels is written as the two N-bit
\* literals, exactly 11 one bits (the 10 continue flags and one more in the
\* place of the terminating 0), and then the 6-bit counter holding the
\* repetitions beyond the 10 collapsed ones, a value in 0..63.
C22_ElevenOnesThenCounter ==
    Encoded =>
        LET steps == EncoderSteps(px, 0)
        IN \A k \in 1..Len(steps) :
               steps[k].same >= 12 =>
                   /\ steps[k].same - 12 \in 0..63
                   /\ BitsFrom(rleOut.out, BitStart(steps, k, cbpp),
                               (2 * cbpp) + 11 + 6)
                          = Literal(steps[k].pixel, cbpp)
                            \o Literal(steps[k].pixel, cbpp)
                            \o Repeat(1, 11)
                            \o Literal(steps[k].same - 12, 6)

\* twelve 4-bit pixels of value 15: 1111 1111, eleven ones, counter 0
C22_Witness ==
    /\ cpc = "compressed"
    /\ cbpp = 4
    /\ px = Repeat(15, 12)
    /\ rleOut = Ok(<<255, 255, 224, 0>>)

RECURSIVE TotalBits(_, _, _)
TotalBits(steps, k, bpp) ==
    IF k = 0 THEN 0
    ELSE TotalBits(steps, k - 1, bpp) + TokenLen(steps[k].same, bpp)

\* C23: no iteration of compress_rle takes more than 75 pixels; of a run
\* of more than 75 identical values the first token covers exactly 75, so
\* the counter never exceeds 63; the iterations consume the input from the
\* first pixel to the last without gap or overlap, the loop ends, and the
\* output is exactly the tokens of those iterations.
C23_RunsCappedAt75 ==
    Encoded =>
        LET steps == EncoderSteps(px, 0)
        IN /\ rleOut.err = ""
           /\ \A k \in 1..Len(steps) :
                  /\ steps[k].same \in 1..75
                  /\ steps[k].same >= 12 => steps[k].same - 12 <= 63
                  /\ steps[k].offset =
                         IF k = 1 THEN 0
                         ELSE steps[k - 1].offset + steps[k - 1].same
                  /\ \A i \in 1..steps[k].same :
                         px[steps[k].offset + i] = steps[k].pixel
                  /\ (\E len \in 76..Len(px) :
                          MaximalRun(px, steps[k].offset, len))
                         => steps[k].same = 75
           /\ px # <<>> =>
                  steps[Len(steps)].offset + steps[Len(steps)].same = Len(px)
           /\ px = <<>> => steps = <<>>
           /\ Len(rleOut.out) = (TotalBits(steps, Len(steps), cbpp) + 7) \div 8

\* 76 one-bit pixels of value 1: a token of 75 (counter 63) and a literal
C23_Witness ==
    /\ cpc = "compressed"
    /\ cbpp = 1
    /\ px = Repeat(1, 76)
    /\ rleOut = Ok(<<255, 255, 240>>)

(***************************************************************************)
(* The conversion thread (ui/convert_dialog.py): ConvertThread.run walks   *)
(* the fonts while the dialog, on the UI thread, may call cancel().        *)
(* convert_font is followed glyph by glyph (core/simple_converter.py).     *)
(***************************************************************************)
MaxThreadFonts == 2             \* fonts handed to the thread

\* number of codepoints of a font
ThreadGlyphCounts == {0, 1, 3}

\* A font as the thread sees it: how many glyphs convert_font renders for
\* it, what convert_font returns, and whether the loop body of run() raises
\* for it: "before" the call (lines 69-81), "after" it (line 98), or not at
\* all.  A font without a single rendered glyph makes convert_font return
\* False.
ThreadFonts ==
    {f \in [glyphs : ThreadGlyphCounts, result : {"True", "False"},
            raises : {"", "before", "after"}] :
        /\ f.glyphs = 0 => f.result = "False"
        /\ f.raises # "" => f.result = "True" /\ f.glyphs = 1}

ThreadInit ==
    /\ thread_fonts \in SeqsUpTo(ThreadFonts, MaxThreadFonts)
    /\ tpc = "start"
    /\ font_i = 0
    /\ glyph_i = 0
    /\ is_cancelled = FALSE
    /\ finished = <<>>
    /\ converted = <<>>
    /\ glyphs_done = 0
    /\ cancel_mark = -1
    /\ WindowIdle /\ RecentIdle
    /\ PixelsIdle /\ BitsIdle /\ EmitIdle /\ ProjectIdle
    /\ CodecIdle /\ FontIdle /\ ConvertIdle

\* self.conversion_finished.emit(success, message)
emit_finished(success, message) ==
    /\ finished' = Append(finished, [success |-> success, message |-> message])
    /\ tpc' = "done"

\* run(), up to the loop: the opening log lines and the converter
ThreadStart ==
    /\ tpc = "start"
    /\ tpc' = "loop"
    /\ UNCHANGED <<thread_fonts, font_i, glyph_i, is_cancelled, finished,
                   converted, glyphs_done, cancel_mark>>
    /\ UNCHANGED <<winVars, recentVars, codecVars, fontVars, convVars,
                   pixelVars, bitsVars, emitVars, projVars>>

\* the head of one loop iteration, up to the call of convert_font; past the
\* last font, the closing emit
LoopHead ==
    /\ tpc = "loop"
    /\ IF font_i >= Len(thread_fonts)
       THEN /\ emit_finished(TRUE, "done")
            /\ UNCHANGED <<glyph_i, converted>>
       ELSE IF is_cancelled
       THEN /\ emit_finished(FALSE, "cancelled")
            /\ UNCHANGED <<glyph_i, converted>>
       ELSE IF thread_fonts[font_i + 1].raises = "before"
       THEN /\ emit_finished(FALSE, "exception")
            /\ UNCHANGED <<glyph_i, converted>>
       ELSE /\ tpc' = "convert"
            /\ glyph_i' = 0
            /\ converted' = Append(converted,
                                   [font |-> font_i, result |-> ""])
            /\ UNCHANGED finished
    /\ UNCHANGED <<thread_fonts, font_i, is_cancelled, glyphs_done,
                   cancel_mark>>
    /\ UNCHANGED <<winVars, recentVars, codecVars, fontVars, convVars,
                   pixelVars, bitsVars, emitVars, projVars>>

\* one iteration of convert_font's glyph loop: a glyph is rendered and
\* encoded
RenderOne ==
    /\ tpc = "convert"
    /\ glyph_i < thread_fonts[font_i + 1].glyphs
    /\ glyph_i' = glyph_i + 1
    /\ glyphs_done' = glyphs_done + 1
    /\ UNCHANGED <<thread_fonts, tpc, font_i, is_cancelled, finished,
                   converted, cancel_mark>>
    /\ UNCHANGED <<winVars, recentVars, codecVars, fontVars, convVars,
                   pixelVars, bitsVars, emitVars, projVars>>

\* the loop body of run() that drops the return after a failed font
ConvertReturnNoReturn ==
    /\ tpc = "convert"
    /\ glyph_i = thread_fonts[font_i + 1].glyphs
    /\ converted' = [converted EXCEPT ![Len(converted)].result =
                        thread_fonts[font_i + 1].result]
    /\ IF thread_fonts[font_i + 1].result = "True"
          /\ thread_fonts[font_i + 1].raises = "after"
       THEN /\ emit_finished(FALSE, "exception")
            /\ UNCHANGED font_i
       ELSE /\ finished' =
                  IF thread_fonts[font_i + 1].result = "True" THEN finished
                  ELSE Append(finished,
                              [success |-> FALSE, message |-> "failed"])
            /\ font_i' = font_i + 1
            /\ tpc' = "loop"
    /\ UNCHANGED <<thread_fonts, glyph_i, is_cancelled, glyphs_done,
                   cancel_mark>>
    /\ UNCHANGED <<winVars, recentVars, codecVars, fontVars, convVars,
                   pixelVars, bitsVars, emitVars, projVars>>

\* convert_font returns after its glyph loop, and the rest of the loop body
ConvertReturn ==
    /\ tpc = "convert"
    /\ glyph_i = thread_fonts[font_i + 1].glyphs
    /\ converted' = [converted EXCEPT ![Len(converted)].result =
                        thread_fonts[font_i + 1].result]
    /\ IF thread_fonts[font_i + 1].result = "True"
       THEN IF thread_fonts[font_i + 1].raises = "after"
            THEN /\ emit_finished(FALSE, "exception")
                 /\ UNCHANGED font_i
            ELSE /\ font_i' = font_i + 1
                 /\ tpc' = "loop"
                 /\ UNCHANGED finished
       ELSE /\ emit_finished(FALSE, "failed")
            /\ UNCHANGED font_i
    /\ UNCHANGED <<thread_fonts, glyph_i, is_cancelled, glyphs_done,
                   cancel_mark>>
    /\ UNCHANGED <<winVars, recentVars, codecVars, fontVars, convVars,
                   pixelVars, bitsVars, emitVars, projVars>>

\* ConvertThread.cancel(), called by the dialog while the thread runs
Cancel ==
    /\ tpc # "done"
    /\ ~is_cancelled
    /\ is_cancelled' = TRUE
    /\ cancel_mark' = glyphs_done
    /\ UNCHANGED <<thread_fonts, tpc, font_i, glyph_i, finished, converted,
                   glyphs_done>>
    /\ UNCHANGED <<winVars, recentVars, codecVars, fontVars, convVars,
                   pixelVars, bitsVars, emitVars, projVars>>

\* the steps of the worker thread
ThreadStep == ThreadStart \/ LoopHead \/ RenderOne \/ ConvertReturn

ThreadNext == ThreadStart \/ LoopHead \/ RenderOne \/ ConvertReturn \/ Cancel

SpecThread == ThreadInit /\ [][ThreadNext]_vars

\* the worker thread is scheduled until run() returns; the dialog is under
\* no obligation to cancel
SpecThreadFair == SpecThread /\ WF_vars(ThreadStep)

\* C24: once cancel() has been requested, at most the glyph in progress is
\* still rendered and encoded: the run's glyph count grows by at most one
\* beyond what it was at the request.
C24_CancelStopsAfterCurrentGlyph ==
    is_cancelled => glyphs_done <= cancel_mark + 1

\* C25: run() emits conversion_finished exactly once, and with it ends;
\* nothing is converted after the signal; the fonts are converted in list
\* order; success is True only if convert_font returned True for every font.
C25_FinishedExactlyOnce ==
    /\ [](/\ Len(finished) <= 1
          /\ (tpc = "done") <=> (Len(finished) = 1)
          /\ \A k \in 1..Len(converted) : converted[k].font = k - 1
          /\ (finished # <<>> /\ finished[1].success) =>
                 /\ Len(converted) = Len(thread_fonts)
                 /\ \A k \in 1..Len(converted) :
                        converted[k].result = "True")
    /\ [][finished # <<>> => UNCHANGED <<converted, glyphs_done>>]_vars
    /\ <>(tpc = "done")

\* a run that converted its first font, was cancelled during it and ended
\* at the next loop head
C25_Witness ==
    /\ tpc = "done"
    /\ finished = <<[success |-> FALSE, message |-> "cancelled"]>>
    /\ Len(thread_fonts) = 2
    /\ converted = <<[font |-> 0, result |-> "True"]>>

(***************************************************************************)
(* Looking codepoints up in the converted font                             *)
(***************************************************************************)
\* the codepoints looked up: every requested one, their neighbours and the
\* gaps between them, and 0, the unicode of the reserved glyph
ProbedCodepoints == {0} \cup 40..75

\* C26: in the font convert_font built, find_glyph_id(c) is the glyph id of
\* the glyph whose unicode is c for every rendered codepoint c, and None for
\* every other codepoint, those between two subtables included.
C26_FindGlyphId ==
    (cpos = "done" /\ lvgl_font # EmptyFont) =>
        \A c \in ProbedCodepoints :
            IF c \in DOMAIN char_to_glyph_id
            THEN /\ find_glyph_id(lvgl_font.cmap, c).found
                 /\ \E k \in 2..Len(lvgl_font.glyf.glyphs) :
                        /\ lvgl_font.glyf.glyphs[k].unicode = c
                        /\ lvgl_font.glyf.glyphs[k].glyph_id =
                               find_glyph_id(lvgl_font.cmap, c).id
            ELSE find_glyph_id(lvgl_font.cmap, c) = NotFound

\* 0x30, 0x31 and 0x33 converted: 0x32 lies between the two subtables
C26_Witness ==
    /\ cpos = "done"
    /\ DOMAIN char_to_glyph_id = {48, 49, 51}
    /\ Len(lvgl_font.cmap) = 2
    /\ find_glyph_id(lvgl_font.cmap, 50) = NotFound
    /\ find_glyph_id(lvgl_font.cmap, 51) = Found(3)

(***************************************************************************)
(* Emission of fonts whose cmap holds any kind of subtable                 *)
(***************************************************************************)
MaxSubtables == 2               \* subtables of an emitted cmap

\* a subtable of each format with one codepoint, with and without each of
\* its two lists
AnySubtables ==
    {[range_start |-> 65, range_length |-> 1, glyph_id_start |-> 1,
      format |-> fmt, unicode_list |-> ulist, glyph_id_ofs_list |-> olist] :
        fmt \in {FORMAT0_TINY, FORMAT0_FULL, SPARSE_TINY, SPARSE_FULL},
        ulist \in {<<>>, <<65>>}, olist \in {<<>>, <<0>>}}

\* fonts of two glyphs, ids 0 and 1, with such a cmap that font.validate()
\* accepts
CmapFonts ==
    {f \in [name : {"font"},
            head : {[bpp |-> 4, compression_id |-> NONE]},
            cmap : SeqsUpTo(AnySubtables, MaxSubtables) \ {<<>>},
            glyf : {[glyphs |-> g, bpp |-> 4, compression |-> NONE] :
                       g \in {t \in GlyphTables :
                                 /\ Len(t) = 2
                                 /\ t[1].glyph_id = 0
                                 /\ t[2].glyph_id = 1}}] :
        validate(f) = <<>>}

CmapEmitInit ==
    /\ efont \in CmapFonts
    /\ efont0 = efont
    /\ emitted = <<>>
    /\ PixelsIdle /\ BitsIdle /\ ProjectIdle
    /\ CodecIdle /\ FontIdle /\ ConvertIdle /\ AppIdle

SpecCmapEmit == CmapEmitInit /\ [][EmitNext]_vars

\* the emitted text defines the array `array`_idx
DefinesArray(text, array, idx) ==
    \E d \in Elems(text.cmap_defs) : d.array = array /\ d.idx = idx

\* C27: in every emitted text, a subtable header that names unicode_list_i
\* or glyph_id_ofs_list_i rather than NULL comes with a definition of that
\* array.
C27_NamedArraysDefined ==
    \A i \in 1..Len(emitted) :
        emitted[i].err = "" =>
            \A k \in 1..Len(emitted[i].out.cmaps) :
                LET h == emitted[i].out.cmaps[k]
                IN /\ h.unicode_list # "NULL" =>
                          DefinesArray(emitted[i].out, "unicode_list", h.idx)
                   /\ h.glyph_id_ofs_list # "NULL" =>
                          DefinesArray(emitted[i].out, "glyph_id_ofs_list",
                                       h.idx)

(***************************************************************************)
(* A project in use: it holds fonts, may have a file and unsaved edits,    *)
(* and is saved or made to load another file                               *)
(***************************************************************************)
\* the project before the calls
UsedProjects ==
    [file_path : {NoPath, <<"a", ".lvfc">>},
     fonts : SeqsUpTo(FontSources, 1),
     config : Configs,
     modified : BOOLEAN]

\* a.lvfc holds nothing or a project with one font; a.lvproj as before
UsedDisks ==
    {[EmptyDisk EXCEPT ![<<"a", ".lvproj">>] = c, ![<<"a", ".lvfc">>] = d] :
        c \in OlderContents,
        d \in {Missing} \cup
              {json_dump(Project_to_dict(
                   [NewProject EXCEPT !.fonts = <<f>>])) :
                  f \in {g \in FontSources : g.display_name # ""}}}

ReloadInit ==
    /\ saved_project \in UsedProjects
    /\ fresh_project = NewProject
    /\ disk \in UsedDisks
    /\ save_path = NoPath
    /\ save_res = ""
    /\ load_path = NoPath
    /\ load_res = ""
    /\ PixelsIdle /\ BitsIdle /\ EmitIdle
    /\ CodecIdle /\ FontIdle /\ ConvertIdle /\ AppIdle

\* success = project.load(file_path), on the project in use
Reload ==
    /\ load_res = ""
    /\ \E file_path \in Paths :
          /\ load_path' = file_path
          /\ load_res' = load(saved_project, file_path, disk).res
          /\ saved_project' = load(saved_project, file_path, disk).self
    /\ UNCHANGED <<fresh_project, disk, save_path, save_res>>
    /\ UNCHANGED <<appVars, codecVars, fontVars, convVars, pixelVars, bitsVars,
                   emitVars>>

ReloadNext == MarkModified \/ Save \/ Reload

SpecReload == ReloadInit /\ [][ReloadNext]_vars

\* C28: a save or load that fails returns False and leaves fonts, config,
\* file_path and modified as they were; a successful one sets file_path and
\* clears modified; and nothing but a successful save or load changes
\* file_path or clears modified.
C28_FailureLeavesProject ==
    [][/\ (load_res' = "" /\ save_res' = "False") =>
              saved_project' = saved_project
       /\ (load_res' = "" /\ save_res' = "True") =>
              /\ saved_project'.file_path = save_target(save_path')
              /\ ~saved_project'.modified
              /\ saved_project'.fonts = saved_project.fonts
              /\ saved_project'.config = saved_project.config
       /\ (load_res = "" /\ load_res' = "False") =>
              saved_project' = saved_project
       /\ (load_res = "" /\ load_res' = "True") =>
              /\ saved_project'.file_path = load_path'
              /\ ~saved_project'.modified
       /\ (\/ saved_project'.file_path # saved_project.file_path
           \/ saved_project.modified /\ ~saved_project'.modified) =>
              \/ load_res' = "" /\ save_res' = "True"
              \/ load_res = "" /\ load_res' = "True"]_vars

\* a project with a font, a file and unsaved edits after a save to a
\* read-only place and a load of a file that is not a project have failed
C28_Witness ==
    /\ save_res = "False"
    /\ load_res = "False"
    /\ disk[load_path] # Missing
    /\ saved_project.modified
    /\ saved_project.fonts # <<>>
    /\ saved_project.file_path = <<"a", ".lvfc">>

(***************************************************************************)
(* The main window (ui/main_window.py) with its font list and its          *)
(* configuration panel (ui/font_list_widget.py, ui/config_widget.py).      *)
(* Qt delivers the widgets' signals to the window's slots inside the emit, *)
(* so a handler is one step.  The window is a record [project,             *)
(* font_sources, config, shared]: config is config_widget.config, and      *)
(* shared tells whether it is the same object as project.config.           *)
(***************************************************************************)
MaxWinSteps == 3                \* menu actions and edits made in the window

\* MainWindow._mark_project_modified
mark_project_modified(w) == [w EXCEPT !.project = mark_modified(@)]

\* MainWindow._on_font_list_changed, the slot of font_changed
on_font_list_changed(w) == mark_project_modified(w)

\* MainWindow._on_config_changed, the slot of config_changed
on_config_changed(w) == mark_project_modified(w)

\* FontListWidget.clear_fonts
clear_fonts(w) == on_font_list_changed([w EXCEPT !.font_sources = <<>>])

\* FontListWidget.add_font_source
add_font_source(w, font_source) ==
    on_font_list_changed([w EXCEPT !.font_sources = Append(@, font_source)])

\* ConfigWidget.set_config: the widget takes the object over and sets its
\* controls; a control whose value changes calls its handler, which stores
\* the value it was given and emits config_changed.  The bpp buttons are
\* connected by buttonClicked, which setChecked does not emit.
set_config(w, config) ==
    LET w1 == [w EXCEPT !.config = config, !.shared = TRUE]
    IN IF \E f \in (DOMAIN config) \ {"bpp"} : w.config[f] # config[f]
       THEN on_config_changed(w1)
       ELSE w1

\* the loop of _load_project_to_UI over project.fonts, from the k-th on
RECURSIVE add_font_sources(_, _)
add_font_sources(w, k) ==
    IF k > Len(w.project.fonts) THEN w
    ELSE add_font_sources(add_font_source(w, w.project.fonts[k]), k + 1)

\* MainWindow._load_project_to_UI
load_project_to_UI(w) ==
    set_config(add_font_sources(clear_fonts(w), 1), w.project.config)

\* MainWindow._save_ui_to_project
save_ui_to_project(w) ==
    [w EXCEPT !.project.fonts = w.font_sources, !.project.config = w.config,
              !.shared = TRUE]

\* MainWindow._save_project(): `chosen` is what the file dialog returns when
\* it is shown, NoPath when it is dismissed
save_project(w, files, chosen) ==
    LET w1 == save_ui_to_project(w)
        file_path == IF w1.project.file_path = NoPath THEN chosen
                     ELSE w1.project.file_path
        saved == save(w1.project, file_path, files)
    IN IF file_path = NoPath THEN [ok |-> FALSE, w |-> w1, files |-> files]
       ELSE [ok |-> saved.res = "True",
             w |-> [w1 EXCEPT !.project = saved.self],
             files |-> saved.files]

\* the question about unsaved changes that opens _on_new_project and
\* _on_open_project: whether the handler goes on, and the window then
unsaved_changes(w, files, reply, chosen) ==
    IF ~w.project.modified \/ reply = "Discard"
    THEN [go |-> TRUE, w |-> w, files |-> files]
    ELSE IF reply = "Cancel"
    THEN [go |-> FALSE, w |-> w, files |-> files]
    ELSE [go |-> save_project(w, files, chosen).ok,
          w |-> save_project(w, files, chosen).w,
          files |-> save_project(w, files, chosen).files]

\* MainWindow._on_new_project
on_new_project(w, files, reply, chosen) ==
    LET asked == unsaved_changes(w, files, reply, chosen)
    IN IF ~asked.go
       THEN [how |-> "new_cancelled", w |-> asked.w, files |-> asked.files]
       ELSE [how |-> "new",
             w |-> load_project_to_UI(
                       [asked.w EXCEPT !.project = NewProject,
                                       !.shared = FALSE]),
             files |-> asked.files]

\* MainWindow._on_open_project: `opened` is the file picked in the dialog
on_open_project(w, files, reply, chosen, opened) ==
    LET asked == unsaved_changes(w, files, reply, chosen)
        loaded == load(asked.w.project, opened, asked.files)
    IN IF ~asked.go \/ opened = NoPath
       THEN [how |-> "open_cancelled", w |-> asked.w, files |-> asked.files]
       ELSE IF loaded.res = "True"
       THEN [how |-> "opened",
             w |-> load_project_to_UI(
                       [asked.w EXCEPT !.project = loaded.self,
                                       !.shared = FALSE]),
             files |-> asked.files]
       ELSE [how |-> "open_failed", w |-> asked.w, files |-> asked.files]

\* the window as a record, and the variables after a handler
Window ==
    [project |-> project, font_sources |-> font_sources,
     config |-> shown_config, shared |-> config_shared]

Becomes(w, files, how) ==
    /\ project' = w.project
    /\ font_sources' = w.font_sources
    /\ shown_config' = w.config
    /\ config_shared' = w.shared
    /\ win_disk' = files
    /\ win_last' = how
    /\ win_steps' = win_steps + 1

\* answers to the question, and the files the dialogs can return
Replies == {"Save", "Discard", "Cancel"}
DialogPaths == {NoPath, <<"a", ".lvfc">>, <<"a", ".lvproj">>,
                <<"readonly", ".lvfc">>}

\* a.lvfc holds nothing or a project with one font; a.lvproj as before
WinDisks ==
    {[EmptyDisk EXCEPT ![<<"a", ".lvproj">>] = c, ![<<"a", ".lvfc">>] = d] :
        c \in OlderContents,
        d \in {Missing} \cup
              {json_dump(Project_to_dict(
                   [NewProject EXCEPT !.fonts = <<f>>, !.config = g])) :
                  f \in {h \in FontSources : h.display_name # ""},
                  g \in Configs}}

\* MainWindow.__init__
WindowInit ==
    /\ project = NewProject
    /\ font_sources = <<>>
    /\ shown_config = ConvertConfig
    /\ config_shared = FALSE
    /\ win_disk \in WinDisks
    /\ win_last = ""
    /\ win_steps = 0
    /\ ThreadIdle /\ RecentIdle
    /\ PixelsIdle /\ BitsIdle /\ EmitIdle /\ ProjectIdle
    /\ CodecIdle /\ FontIdle /\ ConvertIdle

\* File > New
OnNewProject ==
    /\ win_steps < MaxWinSteps
    /\ \E reply \in Replies, chosen \in DialogPaths :
          LET r == on_new_project(Window, win_disk, reply, chosen)
          IN Becomes(r.w, r.files, r.how)
    /\ UNCHANGED <<threadVars, recentVars, codecVars, fontVars, convVars,
                   pixelVars, bitsVars, emitVars, projVars>>

\* File > Open
OnOpenProject ==
    /\ win_steps < MaxWinSteps
    /\ \E reply \in Replies, chosen \in DialogPaths, opened \in DialogPaths :
          LET r == on_open_project(Window, win_disk, reply, chosen, opened)
          IN Becomes(r.w, r.files, r.how)
    /\ UNCHANGED <<threadVars, recentVars, codecVars, fontVars, convVars,
                   pixelVars, bitsVars, emitVars, projVars>>

\* File > Save
OnSaveProject ==
    /\ win_steps < MaxWinSteps
    /\ \E chosen \in DialogPaths :
          LET r == save_project(Window, win_disk, chosen)
          IN Becomes(r.w, r.files, IF r.ok THEN "saved" ELSE "save_failed")
    /\ UNCHANGED <<threadVars, recentVars, codecVars, fontVars, convVars,
                   pixelVars, bitsVars, emitVars, projVars>>

\* the widget's FontSource(path=filepath): no ranges, no symbols, and the
\* file name as display name
PickedFont ==
    [path |-> <<"DejaVuSans", ".ttf">>, ranges |-> <<>>, symbols |-> "",
     display_name |-> "DejaVuSans.ttf"]

\* the user adds a font file that is not in the list yet
\* (FontListWidget._on_add_font)
AddFont ==
    /\ win_steps < MaxWinSteps
    /\ \A i \in 1..Len(font_sources) : font_sources[i].path # PickedFont.path
    /\ Becomes(on_font_list_changed(
                   [Window EXCEPT !.font_sources = Append(@, PickedFont)]),
               win_disk, "font_added")
    /\ UNCHANGED <<threadVars, recentVars, codecVars, fontVars, convVars,
                   pixelVars, bitsVars, emitVars, projVars>>

\* the user moves the size slider (ConfigWidget._on_size_changed): the
\* value goes into config_widget.config, which may be project.config
ChangeSize ==
    /\ win_steps < MaxWinSteps
    /\ \E value \in {16, 24} :
          /\ value # shown_config.font_size
          /\ Becomes(on_config_changed(
                         [Window EXCEPT
                             !.config.font_size = value,
                             !.project.config.font_size =
                                 IF config_shared THEN value ELSE @]),
                     win_disk, "size_changed")
    /\ UNCHANGED <<threadVars, recentVars, codecVars, fontVars, convVars,
                   pixelVars, bitsVars, emitVars, projVars>>

WindowNext ==
    OnNewProject \/ OnOpenProject \/ OnSaveProject \/ AddFont \/ ChangeSize

SpecWindow == WindowInit /\ [][WindowNext]_vars

\* C29: when New Project or Open Project has completed, with the widgets
\* reloaded, the project is not modified.
C29_CleanAfterNewOrOpen ==
    win_last \in {"new", "opened"} => ~project.modified

(***************************************************************************)
(* The recent-projects list of the settings (utils/config.py)              *)
(***************************************************************************)
MaxAdds == 3                    \* add_recent_project calls made

RecentPaths == {"a.lvfc", "b.lvfc", "c.lvfc", "d.lvfc"}

\* max_recent_projects as settings.json may hold it: small enough for the
\* list to be cut, or the default
RecentLimits == {1, 2, 3, 10}

NoDuplicates(list) ==
    \A i, j \in 1..Len(list) : list[i] = list[j] => i = j

\* the list without every x
Without(list, x) == SelectSeq(list, LAMBDA y : y # x)

RecentInit ==
    /\ settings \in
           {st \in [recent_projects : SeqsUpTo(RecentPaths, 3),
                    max_recent_projects : RecentLimits] :
               /\ NoDuplicates(st.recent_projects)
               /\ Len(st.recent_projects) <= st.max_recent_projects}
    /\ before_add = <<>>
    /\ last_added = ""
    /\ adds = 0
    /\ ThreadIdle /\ WindowIdle
    /\ PixelsIdle /\ BitsIdle /\ EmitIdle /\ ProjectIdle
    /\ CodecIdle /\ FontIdle /\ ConvertIdle

\* config.add_recent_project(project_path)
AddRecent ==
    /\ adds < MaxAdds
    /\ \E project_path \in RecentPaths :
          /\ settings' = add_recent_project(settings, project_path)
          /\ last_added' = project_path
    /\ before_add' = settings.recent_projects
    /\ adds' = adds + 1
    /\ UNCHANGED <<threadVars, winVars, codecVars, fontVars, convVars,
                   pixelVars, bitsVars, emitVars, projVars>>

RecentNext == AddRecent

SpecRecent == RecentInit /\ [][RecentNext]_vars

\* C30: after every add_recent_project the list has no duplicate and at
\* most max_recent_projects entries, starts with the path just added, and
\* holds the other paths in the order they had before, cut at the end only;
\* re-adding a path of the list loses none of the others.
C30_RecentProjects ==
    adds >= 1 =>
        LET recent == settings.recent_projects
            others == Without(before_add, last_added)
        IN /\ NoDuplicates(recent)
           /\ Len(recent) <= settings.max_recent_projects
           /\ recent # <<>>
           /\ recent[1] = last_added
           /\ Tail(recent) = SubSeq(others, 1, Len(recent) - 1)
           /\ last_added \in Elems(before_add) => Tail(recent) = others

\* a full list of three whose last path was added again
C30_Witness ==
    /\ adds >= 2
    /\ settings.max_recent_projects = 3
    /\ Len(before_add) = 3
    /\ last_added = before_add[3]
    /\ settings.recent_projects = <<before_add[3], before_add[1], before_add[2]>>

====
